---- MODULE Spec2Model ----
(***************************************************************************)
(* Background analysis worker of claude-code-mem and the start script that *)
(* launches it.                                                            *)
(*                                                                         *)
(* Spec    : one worker process: HTTP handlers, the analysis queue and its *)
(*           consumer, signal and error handlers, the parent check, exit,  *)
(*           while no hook touches the heartbeat file.                     *)
(* MonSpec : the self-supervision of an idle part_006 worker under a       *)
(*           moving clock, hook heartbeats and the exit of its parent.     *)
(* SupSpec : concurrent runs of the start script against the process       *)
(*           table, the listening port and the PID file.                   *)
(* StopSpec: the stop script against any process table and PID file.       *)
(* HookSpec: the hooks of a session (session-start, user-prompt, post-tool, *)
(*           stop) with the Event Log, the session buffer and the analysis *)
(*           the stop hook starts, locally or in the worker.               *)
(* LlmSpec : one call of analyzeSession under every environment, input and *)
(*           behaviour of the LLM endpoint.                                *)
(*                                                                         *)
(* The repository ships three copies of the worker; `variant` selects the  *)
(* copy a behaviour follows:                                               *)
(*   "plugin"  plugin/claude-code-mem/scripts/worker.js                    *)
(*   "monitor" unnamed/part_006 (adds the parent/heartbeat monitor)        *)
(*   "ui"      plugin/claude-code-mem/scripts/worker/worker.js             *)
(***************************************************************************)
EXTENDS Integers, Sequences, FiniteSets, TLC

\* ------------------------------------------------------------------ bounds
MaxTasks == 2
MaxScripts == 2
MaxLog == 4

\* ------------------------------------------------------- program constants
HEARTBEAT_CHECK_INTERVAL == 10000
maxIdleTime == 3600000
PollAttempts == 10

Variants == {"plugin", "monitor", "ui"}

\* Wall-clock instants (ms since the worker was spawned) the clock can show:
\* exactly one idle threshold, and one check interval past it.
Instants == {0, maxIdleTime, maxIdleTime + HEARTBEAT_CHECK_INTERVAL}

Absent == -1

\* A PID file whose text parseInt turns into NaN.
Unreadable == 0

\* sessionData as it comes out of the parsed body: an array of records (only
\* their types matter to the worker) or undefined when the member is missing.
Undefined == [isArray |-> FALSE, items |-> << >>]
SessionDatas ==
    { [isArray |-> TRUE, items |-> << "assistant_message" >>],
      [isArray |-> TRUE, items |-> << "user_message", "assistant_message" >>] }

\* Request bodies of POST /api/analyze: text that is no JSON, the JSON value
\* null, and JSON objects with or without a sessionData array.
Bodies ==
    { [kind |-> "garbage", sessionData |-> Undefined],
      [kind |-> "null", sessionData |-> Undefined],
      [kind |-> "object", sessionData |-> Undefined] }
    \cup { [kind |-> "object", sessionData |-> d] : d \in SessionDatas }

VARIABLES
    variant,            \* which copy of worker.js runs
    wstate,             \* "starting" | "listening" | "closing" | "exited"
    analysisQueue,      \* const analysisQueue = []
    isProcessing,       \* let isProcessing = false
    pendingImmediates,  \* setImmediate(() => processQueue()) callbacks not yet run
    inflight,           \* tasks inside `await analyzeSession(...)`
    accepted,           \* number of tasks pushed so far (task n has seq n)
    status,             \* per task: "none" | "queued" | "processing" | "saved" | "failed"
    analyzeCalls,       \* per task: number of analyzeSession calls
    startOrder,         \* seq numbers in the order processQueue shifted them
    memLog,             \* MEMORY_FILE: the record types appended, with the task
    resp,               \* the last HTTP response written
    now,                \* Date.now()
    heartbeatFile,      \* HEARTBEAT_FILE content, or Absent
    parentAlive,        \* does the process PARENT_PID names still exist
    heartbeatTimer,     \* heartbeatTimer !== null
    shutdownCause,      \* why shutdown() first ran: "none" | "signal" | "parent" | "idle" | "uncaught"
    lastError,          \* last process-level error logged
    connOpen,           \* a client connection is still open
    startScript,        \* which copy of the start script runs
    sc,                 \* per start-script run: its position and poll count
    proc,               \* process table: state of the worker with each pid
    pidFile,            \* PID_FILE content: a pid, Unreadable, or Absent
    stop,               \* the run of the stop script: its position and the signals sent
    hook,               \* the run of the stop hook and the analysis it starts
    sessionFile,        \* SESSION_FILE: whether it exists, and the record types in it
    appendCalls,        \* the records handed to appendFileSync(MEMORY_FILE), in call order
    llm,                \* one call of analyzeSession: environment, input, position, result
    graphFile,          \* GRAPH_FILE: the entity and relation lines of knowledge_graph.jsonl
    kg,                 \* the runs of knowledge_graph_builder.js so far: the last mode and output
    query               \* one run of the prompt hook: its input, configuration, result and output

wvars == << variant, wstate, analysisQueue, isProcessing, pendingImmediates, inflight,
            accepted, status, analyzeCalls, startOrder, memLog, resp, now,
            heartbeatFile, parentAlive, heartbeatTimer, shutdownCause, lastError,
            connOpen >>

svars == << startScript, sc, proc, pidFile >>

\* state of the scripts that run beside the worker and the start script
hvars == << stop, hook, sessionFile, appendCalls, llm, graphFile, kg, query >>

vars == << wvars, svars, hvars >>

Tasks == 1..MaxTasks

NoBody == [kind |-> "none", sessionData |-> Undefined]
NoResp == [op |-> "none", code |-> 0, status |-> "none", n |-> 0, uptime |-> 0, req |-> NoBody]

Scripts == 1..MaxScripts
\* Every run of the start script spawns at most once: pids 1..MaxScripts.
Pids == 1..MaxScripts

StartScripts == {"probe", "pidfile"}

IdleScript == [pc |-> "idle", polls |-> 0, pid |-> Absent, outcome |-> "none"]

\* No start script has run: no worker process, no PID file.
SupervisorIdle ==
    /\ sc = [i \in Scripts |-> IdleScript]
    /\ proc = [p \in Pids |-> "none"]
    /\ pidFile = Absent

IdleStop == [pc |-> "idle", pid |-> Absent, term |-> {}, kill |-> {}]

NoFile == [exists |-> FALSE, items |-> << >>, session |-> 0]

\* The two copies of the stop hook: part_004 submits the session to the
\* worker and analyses locally when that fails, scripts/stop.js always analyses
\* locally.
StopHooks == {"submit", "local"}

\* `uncaught` names the hook script, if any, that an exception has left
\* without being caught: node prints it and the script exits with code 1.
\* `analysis` is how the last analysis of the session ended: its outcome, the
\* number of observations of its result and the write that failed in saving.
IdleHook == [pc |-> "idle", copy |-> "submit", sent |-> << >>, session |-> 0,
             outcome |-> "none", localRuns |-> 0, pending |-> 0, localData |-> << >>,
             uncaught |-> "none",
             analysis |-> [outcome |-> "none", k |-> 0, ioFail |-> "none"]]

\* The environment variables getApiConfig reads: is ANTHROPIC_AUTH_TOKEN set,
\* is ANTHROPIC_API_KEY or CLAUDE_API_KEY set, is ANTHROPIC_DEFAULT_HAIKU_MODEL
\* set, and what ANTHROPIC_BASE_URL holds.
Envs == [authToken : BOOLEAN, apiKey : BOOLEAN, envModel : BOOLEAN,
         baseUrl : {"unset", "valid", "invalid"}]

NoEnv == [authToken |-> FALSE, apiKey |-> FALSE, envModel |-> FALSE, baseUrl |-> "unset"]

NoConfig == [source |-> "none", model |-> "none", baseUrl |-> "none"]

IdleLlm == [pc |-> "idle", env |-> NoEnv, input |-> Undefined, config |-> NoConfig,
            requests |-> 0, endpoint |-> "none", response |-> "none", result |-> "none"]

\* the prompt hook before it runs: what it will read (stdin, memory_config.json,
\* the project of the working directory, the day, the LLM's keywords, the
\* fault that strikes) and what it has not yet produced
IdleQuery ==
    [pc |-> "idle", stdin |-> [parses |-> TRUE, prompt |-> << >>, content |-> << >>],
     file |-> << >>, project |-> << "m" >>, today |-> 40, llmAnswer |-> << >>,
     fault |-> "none", threw |-> FALSE, searched |-> FALSE,
     memory |-> [threw |-> FALSE, loaded |-> << >>, keywords |-> << >>, scored |-> << >>,
                 entities |-> << >>, relations |-> << >>],
     stdout |-> << >>]

\* knowledge_graph_builder.js has not run and there is no graph file; the
\* prompt hook has not run.  Of kg, `last` is the mode of the builder's last
\* run, `dirty` whether MEMORY_FILE was appended to since that run, `rebuilds`
\* how many full rebuilds (counted to two) have read MEMORY_FILE as it is now,
\* `full` what the last of them wrote and `before` what GRAPH_FILE held when
\* it started.
GraphIdle ==
    /\ graphFile = << >>
    /\ kg = [last |-> "none", dirty |-> FALSE, rebuilds |-> 0, full |-> << >>,
             before |-> << >>]
    /\ query = IdleQuery

\* No other script has run yet.
HooksIdle ==
    /\ GraphIdle
    /\ llm = IdleLlm
    /\ stop = IdleStop
    /\ hook = IdleHook
    /\ sessionFile = NoFile
    /\ appendCalls = << >>

\* A worker as it comes out of spawn.
WorkerSpawned ==
    /\ wstate = "starting"
    /\ analysisQueue = << >>
    /\ isProcessing = FALSE
    /\ pendingImmediates = 0
    /\ inflight = {}
    /\ accepted = 0
    /\ status = [t \in Tasks |-> "none"]
    /\ analyzeCalls = [t \in Tasks |-> 0]
    /\ startOrder = << >>
    /\ memLog = << >>
    /\ resp = NoResp
    /\ now = 0
    /\ heartbeatFile = Absent
    /\ parentAlive = TRUE
    /\ heartbeatTimer = FALSE
    /\ shutdownCause = "none"
    /\ lastError = "none"
    /\ connOpen = FALSE

Init ==
    /\ variant \in Variants
    /\ WorkerSpawned
    /\ startScript = "probe"
    /\ SupervisorIdle
    /\ HooksIdle

Alive == wstate # "exited"

\* A request reaches the handlers over a new connection while the server
\* listens, or over a connection opened before server.close().
Serving == wstate = "listening" \/ (wstate = "closing" /\ connOpen)

qvars == << analysisQueue, isProcessing, pendingImmediates, inflight, accepted, status,
            analyzeCalls, startOrder, memLog >>
envvars == << now, heartbeatFile, parentAlive >>
lifevars == << wstate, heartbeatTimer, shutdownCause >>

\* ------------------------------------------------------------ pure helpers

\* process.uptime(): the clock counts from the worker's spawn.
uptime == now

\* JSON.parse(body) followed by the destructuring `const { sessionData, sessionId } =`:
\* throws on text that is no JSON and on the value null.
ParseThrows(b) == b.kind \in {"garbage", "null"}

\* analysisQueue.shift()
ShiftFromTail(q) == [task |-> q[Len(q)], rest |-> SubSeq(q, 1, Len(q) - 1)]
Shift(q) == [task |-> Head(q), rest |-> Tail(q)]

\* the early return of processQueue
MayStartLoopIgnoringFlag == Len(analysisQueue) > 0
MayStartLoop == ~isProcessing /\ Len(analysisQueue) > 0

HasUserMessage(d) == \E i \in 1..Len(d.items) : d.items[i] = "user_message"

\* The ways analyzeSession(sessionData) can settle: getApiConfig() null gives
\* null; otherwise iterating a non-iterable throws, no user message gives null,
\* and generateSessionSummary gives the analysis or null.
analyzeSession(d) ==
    IF ~d.isArray THEN {"null", "throw"}
    ELSE IF ~HasUserMessage(d) THEN {"null"}
    ELSE {"null", "ok"}

\* What the queue holds after a task failed: the task is only logged.
RequeueOnFailure(q, task) == Append(q, task)
AfterFailure(q, task) == q

\* The records saveAnalysisResult appends for an analysis with k observations
\* when the I/O fails at `ioFail` ("none", "summary", "observation", "unlink");
\* `index` stands for what the i-th observation of the analysis says.
SavedLastFirst(task, k, ioFail) ==
    LET summary == [type |-> "session_summary", task |-> task.seq,
                    message_count |-> Len(task.sessionData.items)]
        obs == [i \in 1..k |-> [type |-> "observation", task |-> task.seq,
                                message_count |-> 0, index |-> k + 1 - i]]
    IN  IF ioFail = "summary" THEN << >>
        ELSE IF ioFail = "observation" THEN << summary >>
        ELSE << summary >> \o obs
SavedRecords(task, k, ioFail) ==
    LET summary == [type |-> "session_summary", task |-> task.seq,
                    message_count |-> Len(task.sessionData.items)]
        obs == [i \in 1..k |-> [type |-> "observation", task |-> task.seq,
                                message_count |-> 0, index |-> i]]
    IN  IF ioFail = "summary" THEN << >>
        ELSE IF ioFail = "observation" THEN << summary >>
        ELSE << summary >> \o obs

\* fs.appendFileSync(MEMORY_FILE, JSON.stringify(record) + '\n') for each of
\* `records` in turn: the file afterwards.
OverwriteFile(log, records) == records
appendFileSync(log, records) == log \o records

\* GET /health body
HealthBodyCountingInflight ==
    [op |-> "health", code |-> 200, status |-> "ok",
     n |-> Len(analysisQueue) + Cardinality(inflight), uptime |-> uptime, req |-> NoBody]
HealthBody ==
    [op |-> "health", code |-> 200, status |-> "ok",
     n |-> Len(analysisQueue), uptime |-> uptime, req |-> NoBody]

\* checkParentProcess(): process.kill(PARENT_PID, 0) succeeds
checkParentProcess == parentAlive

\* checkHeartbeat()
checkHeartbeatReversed ==
    IF heartbeatFile = Absent THEN TRUE ELSE ~(heartbeatFile - now > maxIdleTime)
checkHeartbeat ==
    IF heartbeatFile = Absent THEN TRUE ELSE ~(now - heartbeatFile > maxIdleTime)

\* Does the uncaughtException handler of this copy call shutdown()
UncaughtShutsDown == variant \in {"plugin", "monitor"}

\* shutdown(): stopHeartbeatMonitor(), server.close(cb), the 5 s force timer.
shutdown(cause) ==
    /\ wstate' = "closing"
    /\ heartbeatTimer' = FALSE
    /\ shutdownCause' = IF shutdownCause = "none" THEN cause ELSE shutdownCause

\* --------------------------------------------------------- worker actions

\* server.listen callback: the server accepts connections; part_006 also
\* starts the monitor.
Listen ==
    /\ wstate = "starting"
    /\ wstate' = "listening"
    /\ heartbeatTimer' = (variant = "monitor")
    /\ UNCHANGED << svars, hvars, variant, qvars, resp, envvars, shutdownCause, lastError, connOpen >>

\* A client opens a connection and keeps it open.
ClientConnect ==
    /\ wstate = "listening"
    /\ ~connOpen
    /\ connOpen' = TRUE
    /\ UNCHANGED << svars, hvars, variant, qvars, resp, envvars, lifevars, lastError >>

ClientDisconnect ==
    /\ Alive
    /\ connOpen
    /\ connOpen' = FALSE
    /\ UNCHANGED << svars, hvars, variant, qvars, resp, envvars, lifevars, lastError >>

\* GET /health
Health ==
    /\ Serving
    /\ resp' = HealthBody
    /\ UNCHANGED << svars, hvars, variant, qvars, envvars, lifevars, lastError, connOpen >>

\* POST /api/analyze, the 'end' handler: parse, push, setImmediate, 202; any
\* throw inside the try answers 400.
Analyze(b) ==
    /\ Serving
    /\ IF ParseThrows(b)
         THEN /\ resp' = [op |-> "analyze", code |-> 400, status |-> "error", n |-> 0,
                          uptime |-> 0, req |-> b]
              /\ UNCHANGED qvars
         ELSE /\ accepted < MaxTasks
              /\ accepted' = accepted + 1
              /\ analysisQueue' = Append(analysisQueue,
                                         [seq |-> accepted + 1, sessionData |-> b.sessionData])
              /\ status' = [status EXCEPT ![accepted + 1] = "queued"]
              /\ pendingImmediates' = pendingImmediates + 1
              /\ resp' = [op |-> "analyze", code |-> 202, status |-> "queued",
                          n |-> Len(analysisQueue) + 1, uptime |-> 0, req |-> b]
              /\ UNCHANGED << isProcessing, inflight, analyzeCalls, startOrder, memLog >>
    /\ UNCHANGED << svars, hvars, variant, envvars, lifevars, lastError, connOpen >>

\* The loop body of processQueue up to `await analyzeSession(task.sessionData)`,
\* applied to queue q with the tasks in `busy` awaited by other iterations.
TakeNext(q, busy, st) ==
    LET s == Shift(q) IN
    /\ analysisQueue' = s.rest
    /\ inflight' = busy \cup {s.task}
    /\ status' = [st EXCEPT ![s.task.seq] = "processing"]
    /\ analyzeCalls' = [analyzeCalls EXCEPT ![s.task.seq] = @ + 1]
    /\ startOrder' = Append(startOrder, s.task.seq)

\* A setImmediate callback runs processQueue().
RunImmediate ==
    /\ Alive
    /\ pendingImmediates > 0
    /\ pendingImmediates' = pendingImmediates - 1
    /\ IF MayStartLoop
         THEN /\ isProcessing' = TRUE
              /\ TakeNext(analysisQueue, inflight, status)
         ELSE UNCHANGED << analysisQueue, isProcessing, inflight, status, analyzeCalls,
                           startOrder >>
    /\ UNCHANGED << svars, hvars, variant, accepted, memLog, resp, envvars, lifevars, lastError, connOpen >>

\* A processQueue without the try/catch around each task: a throwing analysis
\* leaves the loop before isProcessing is reset.
ThrowLeavesLoop(t, outcome, k, ioFail) ==
    /\ Alive
    /\ t \in inflight
    /\ outcome \in analyzeSession(t.sessionData)
    /\ (outcome # "ok") => (k = 0 /\ ioFail = "none")
    /\ (ioFail = "observation") => k > 0
    /\ LET saved == outcome = "ok" /\ ioFail = "none"
           st == [status EXCEPT ![t.seq] = IF saved THEN "saved" ELSE "failed"]
           q == IF saved THEN analysisQueue ELSE AfterFailure(analysisQueue, t)
           busy == inflight \ {t}
       IN  /\ memLog' = IF outcome = "ok" THEN memLog \o SavedRecords(t, k, ioFail)
                        ELSE memLog
           /\ IF Len(q) > 0
                THEN /\ TakeNext(q, busy, st)
                     /\ UNCHANGED isProcessing
                ELSE /\ isProcessing' = (outcome = "throw")
                     /\ analysisQueue' = q
                     /\ inflight' = busy
                     /\ status' = st
                     /\ UNCHANGED << analyzeCalls, startOrder >>
    /\ UNCHANGED << svars, hvars, variant, pendingImmediates, accepted, resp, envvars, lifevars,
                    lastError, connOpen >>

\* `await analyzeSession(...)` settles for task t with `outcome`; the try/catch
\* inside the loop keeps the loop going whatever the outcome. On "ok" the
\* analysis has k observations and saveAnalysisResult meets I/O failure ioFail.
\* Then the while loop goes on with the next task or resets isProcessing.
AnalysisSettles(t, outcome, k, ioFail) ==
    /\ Alive
    /\ t \in inflight
    /\ outcome \in analyzeSession(t.sessionData)
    /\ (outcome # "ok") => (k = 0 /\ ioFail = "none")
    /\ (ioFail = "observation") => k > 0
    /\ LET saved == outcome = "ok" /\ ioFail = "none"
           st == [status EXCEPT ![t.seq] = IF saved THEN "saved" ELSE "failed"]
           q == IF saved THEN analysisQueue ELSE AfterFailure(analysisQueue, t)
           busy == inflight \ {t}
       IN  /\ memLog' = IF outcome = "ok" THEN memLog \o SavedRecords(t, k, ioFail)
                        ELSE memLog
           /\ IF Len(q) > 0
                THEN /\ TakeNext(q, busy, st)
                     /\ UNCHANGED isProcessing
                ELSE /\ isProcessing' = FALSE
                     /\ analysisQueue' = q
                     /\ inflight' = busy
                     /\ status' = st
                     /\ UNCHANGED << analyzeCalls, startOrder >>
    /\ UNCHANGED << svars, hvars, variant, pendingImmediates, accepted, resp, envvars, lifevars,
                    lastError, connOpen >>

\* SIGTERM / SIGINT handler
Signal ==
    /\ Alive
    /\ shutdown("signal")
    /\ UNCHANGED << svars, hvars, variant, qvars, resp, envvars, lastError, connOpen >>

\* process.on('uncaughtException')
UncaughtException ==
    /\ Alive
    /\ lastError' = "uncaughtException"
    /\ IF UncaughtShutsDown THEN shutdown("uncaught") ELSE UNCHANGED lifevars
    /\ UNCHANGED << svars, hvars, variant, qvars, resp, envvars, connOpen >>

\* process.on('unhandledRejection')
UnhandledRejection ==
    /\ Alive
    /\ lastError' = "unhandledRejection"
    /\ UNCHANGED << svars, hvars, variant, qvars, resp, envvars, lifevars, connOpen >>

\* The setInterval callback of startHeartbeatMonitor
MonitorTick ==
    /\ heartbeatTimer
    /\ IF ~checkParentProcess THEN shutdown("parent")
       ELSE IF ~checkHeartbeat THEN shutdown("idle")
       ELSE UNCHANGED lifevars
    /\ UNCHANGED << svars, hvars, variant, qvars, resp, envvars, lastError, connOpen >>

\* process.exit(): the process and everything it held in memory are gone. What
\* stays is what left the process: the log, the responses, the task history.
Exit ==
    /\ wstate' = "exited"
    /\ analysisQueue' = << >>
    /\ isProcessing' = FALSE
    /\ pendingImmediates' = 0
    /\ inflight' = {}
    /\ connOpen' = FALSE
    /\ UNCHANGED << svars, hvars, variant, accepted, status, analyzeCalls, startOrder, memLog, resp,
                    envvars, heartbeatTimer, shutdownCause, lastError >>

\* server.close callback: every connection has ended; process.exit(0)
ServerClosed ==
    /\ wstate = "closing"
    /\ ~connOpen
    /\ Exit

\* A shutdown whose timer lets the task in flight finish first.
ExitWaitsForAnalysis ==
    /\ wstate = "closing"
    /\ inflight = {}
    /\ Exit

\* The 5 s timer of shutdown(): process.exit(1)
ForceExit ==
    /\ wstate = "closing"
    /\ Exit

\* ------------------------------------------------------------- environment

\* The process that spawned the worker (the start script) exits. Only the
\* monitor of part_006 ever looks at it.
ParentExits ==
    /\ Alive
    /\ variant = "monitor"
    /\ parentAlive
    /\ parentAlive' = FALSE
    /\ UNCHANGED << svars, hvars, variant, qvars, resp, now, heartbeatFile, lifevars, lastError, connOpen >>

\* A hook runs: fs.writeFileSync(HEARTBEAT_FILE, Date.now().toString()). Only
\* the monitor of part_006 ever reads the file.
HookHeartbeat ==
    /\ Alive
    /\ variant = "monitor"
    /\ heartbeatFile # now
    /\ heartbeatFile' = now
    /\ UNCHANGED << svars, hvars, variant, qvars, resp, now, parentAlive, lifevars, lastError, connOpen >>

AdvanceTime ==
    /\ Alive
    /\ \E t \in Instants : t > now /\ now' = t
    /\ UNCHANGED << svars, hvars, variant, qvars, resp, heartbeatFile, parentAlive, lifevars, lastError,
                    connOpen >>

\* Numbers of observations an analysis carries.
ObsCounts == {0, 1}
IoFailures == {"none", "summary", "observation", "unlink"}

Next ==
    \/ Listen
    \/ ClientConnect
    \/ ClientDisconnect
    \/ Health
    \/ \E b \in Bodies : Analyze(b)
    \/ RunImmediate
    \/ \E t \in inflight, o \in {"null", "throw", "ok"}, k \in ObsCounts, f \in IoFailures :
           AnalysisSettles(t, o, k, f)
    \/ Signal
    \/ UncaughtException
    \/ UnhandledRejection
    \/ MonitorTick
    \/ ServerClosed
    \/ ForceExit
    \/ ParentExits
    \/ AdvanceTime

Spec == Init /\ [][Next]_vars

\* The worker with an event loop that runs every pending setImmediate callback
\* and with analysis calls that all return.
LiveSpec ==
    /\ Spec
    /\ WF_vars(RunImmediate)
    /\ WF_vars(\E t \in inflight, outcome \in {"null", "throw", "ok"}, k \in ObsCounts,
                   ioFail \in IoFailures : AnalysisSettles(t, outcome, k, ioFail))

\* The worker whose event loop fires the 5 s timer of shutdown() when it is
\* due; connections may stay open and analysis calls need not return.
ExitSpec == Spec /\ WF_vars(ForceExit)

\* ------------------------------------------------------ the start script

\* process.kill(pid, 0) succeeds
ProcessExists(pid) == pid \in Pids /\ proc[pid] \in {"starting", "listening", "closing"}

\* Some worker holds the port and answers on it.
PortBound == \E p \in Pids : proc[p] = "listening"

\* isWorkerAvailable() of start_worker.js: true on a 200 with a parseable
\* body; false on an error, another status, or after the 1 s timeout.
isWorkerAvailable == IF PortBound THEN {TRUE, FALSE} ELSE {FALSE}

\* isPortAvailable() of part_003: statusCode === 200, false on an error.
isPortAvailable == IF PortBound THEN {TRUE} ELSE {FALSE}

Probe == IF startScript = "probe" THEN isWorkerAvailable ELSE isPortAvailable

\* cleanupPidFile() / the catch branch of isWorkerRunning(): the PID file
\* afterwards.
cleanupPidFile ==
    IF pidFile = Absent THEN Absent
    ELSE IF ProcessExists(pidFile) THEN pidFile ELSE Absent

\* isWorkerRunning() of part_003
isWorkerRunning == pidFile # Absent /\ ProcessExists(pidFile)

\* The pid the next spawned worker gets.
NextPid == 1 + Cardinality({p \in Pids : proc[p] # "none"})

\* The number of health polls after the spawn.
PollLimit == IF startScript = "probe" THEN PollAttempts ELSE 1

Finish(i, how) == sc' = [sc EXCEPT ![i].pc = "done", ![i].outcome = how]

\* startWorker() up to its first await. part_003 first trusts the PID file.
Invoke(i) ==
    /\ sc[i].pc = "idle"
    /\ IF startScript = "pidfile"
         THEN /\ pidFile' = cleanupPidFile
              /\ IF isWorkerRunning THEN Finish(i, "already")
                 ELSE sc' = [sc EXCEPT ![i].pc = "probing"]
         ELSE /\ sc' = [sc EXCEPT ![i].pc = "probing"]
              /\ UNCHANGED pidFile
    /\ UNCHANGED << wvars, hvars, startScript, proc >>

\* Does startWorker go on to spawn after a first probe that answered r
SpawnsRegardless(r) == TRUE
SpawnsAfter(r) == ~r

\* The first health probe answers r; when unhealthy the script cleans the PID
\* file, spawns a detached worker and writes its pid, all before the next await.
ProbeAnswer(i, r) ==
    /\ sc[i].pc = "probing"
    /\ r \in Probe
    /\ IF ~SpawnsAfter(r)
         THEN /\ Finish(i, "already")
              /\ UNCHANGED << proc, pidFile >>
         ELSE /\ proc' = [proc EXCEPT ![NextPid] = "starting"]
              /\ pidFile' = NextPid
              /\ sc' = [sc EXCEPT ![i].pc = "polling", ![i].pid = NextPid]
    /\ UNCHANGED << wvars, hvars, startScript >>

\* The first probe failed and no worker can be started: fs.openSync(LOG_FILE)
\* throws, or spawn finds no `node` and worker.pid is undefined, so that
\* worker.pid.toString() throws. The rejection of startWorker() reaches the
\* .catch at the bottom of the script: process.exit(1).
SpawnFails(i) ==
    /\ sc[i].pc = "probing"
    /\ FALSE \in Probe
    /\ pidFile' = IF startScript = "probe" THEN cleanupPidFile ELSE pidFile
    /\ Finish(i, "exit1")
    /\ UNCHANGED << wvars, hvars, startScript, proc >>

\* One round of the wait loop: sleep, then a health probe that answers r.
PollAnswer(i, r) ==
    /\ sc[i].pc = "polling"
    /\ r \in Probe
    /\ IF r THEN Finish(i, "ready")
       ELSE IF sc[i].polls + 1 >= PollLimit THEN Finish(i, "warned")
       ELSE sc' = [sc EXCEPT ![i].polls = @ + 1]
    /\ UNCHANGED << wvars, hvars, startScript, proc, pidFile >>

\* server.listen of a spawned worker: it binds the port, or the bind fails
\* (EADDRINUSE) and the process ends without ever serving.
WorkerListen(p) ==
    /\ proc[p] = "starting"
    /\ proc' = [proc EXCEPT ![p] = IF PortBound THEN "exited" ELSE "listening"]
    /\ UNCHANGED << wvars, hvars, startScript, sc, pidFile >>

\* shutdown() runs in a worker (signal, supervision or uncaught exception):
\* server.close() releases the port, the process lives on until it exits.
WorkerShutdown(p) ==
    /\ proc[p] \in {"starting", "listening"}
    /\ proc' = [proc EXCEPT ![p] = "closing"]
    /\ UNCHANGED << wvars, hvars, startScript, sc, pidFile >>

WorkerExit(p) ==
    /\ proc[p] = "closing"
    /\ proc' = [proc EXCEPT ![p] = "exited"]
    /\ UNCHANGED << wvars, hvars, startScript, sc, pidFile >>

SupInit ==
    /\ startScript \in StartScripts
    /\ SupervisorIdle
    /\ variant = "plugin"
    /\ WorkerSpawned
    /\ HooksIdle

SupNext ==
    \/ \E i \in Scripts : Invoke(i)
    \/ \E i \in Scripts, r \in BOOLEAN : ProbeAnswer(i, r)
    \/ \E i \in Scripts : SpawnFails(i)
    \/ \E i \in Scripts, r \in BOOLEAN : PollAnswer(i, r)
    \/ \E p \in Pids : WorkerListen(p)
    \/ \E p \in Pids : WorkerShutdown(p)
    \/ \E p \in Pids : WorkerExit(p)

SupSpec == SupInit /\ [][SupNext]_vars

MonInit ==
    /\ variant = "monitor"
    /\ WorkerSpawned
    /\ startScript = "probe"
    /\ SupervisorIdle
    /\ HooksIdle

MonNext ==
    \/ Listen
    \/ ClientConnect
    \/ ClientDisconnect
    \/ Health
    \/ Signal
    \/ UncaughtException
    \/ UnhandledRejection
    \/ MonitorTick
    \/ ServerClosed
    \/ ForceExit
    \/ ParentExits
    \/ HookHeartbeat
    \/ AdvanceTime

MonSpec == MonInit /\ [][MonNext]_vars

\* -------------------------------------------------------- the stop script

\* What PID files can hold when the stop script runs.
PidFiles == Pids \cup {Absent, Unreadable}

ProcStates == {"none", "starting", "listening", "closing", "exited"}

\* The PID file after stopWorker's cleanup (`threw`: the cleanup runs in the
\* catch branch, not in the timer).
PidFileKeptOnError(threw) == IF threw THEN pidFile ELSE Absent
PidFileAfterStop(threw) == Absent

\* stopWorker() up to its return. Without a PID file it does nothing. parseInt
\* of unreadable text gives NaN and process.kill throws; it also throws when
\* the process is gone (ESRCH) or, `eperm`, may not be signalled: the catch
\* branch removes the PID file. Otherwise SIGTERM is delivered and the 2 s
\* timer is armed.
StopBegin(eperm) ==
    /\ stop.pc = "idle"
    /\ IF pidFile = Absent
         THEN /\ stop' = [stop EXCEPT !.pc = "done"]
              /\ UNCHANGED << proc, pidFile >>
         ELSE IF ~ProcessExists(pidFile) \/ eperm
         THEN /\ stop' = [stop EXCEPT !.pc = "done", !.pid = pidFile]
              /\ pidFile' = PidFileAfterStop(TRUE)
              /\ UNCHANGED proc
         ELSE /\ stop' = [stop EXCEPT !.pc = "waiting", !.pid = pidFile,
                                        !.term = @ \cup {pidFile}]
              /\ proc' = [proc EXCEPT ![pidFile] = "closing"]
              /\ UNCHANGED pidFile
    /\ UNCHANGED << wvars, startScript, sc, hook, sessionFile, appendCalls, llm, graphFile, kg, query >>

\* The 2 s timer of stopWorker: SIGKILL when process.kill(pid, 0) still
\* succeeds, then the PID file is removed.
StopTimer ==
    /\ stop.pc = "waiting"
    /\ IF ProcessExists(stop.pid)
         THEN /\ proc' = [proc EXCEPT ![stop.pid] = "exited"]
              /\ stop' = [stop EXCEPT !.pc = "done", !.kill = @ \cup {stop.pid}]
         ELSE /\ stop' = [stop EXCEPT !.pc = "done"]
              /\ UNCHANGED proc
    /\ pidFile' = PidFileAfterStop(FALSE)
    /\ UNCHANGED << wvars, startScript, sc, hook, sessionFile, appendCalls, llm, graphFile, kg, query >>

\* The stop script can meet any process table with at most one worker on the
\* port, and any PID file.
StopInit ==
    /\ variant = "plugin"
    /\ WorkerSpawned
    /\ startScript = "probe"
    /\ sc = [i \in Scripts |-> IdleScript]
    /\ proc \in [Pids -> ProcStates]
    /\ Cardinality({p \in Pids : proc[p] = "listening"}) <= 1
    /\ pidFile \in PidFiles
    /\ HooksIdle

StopNext ==
    \/ \E eperm \in BOOLEAN : StopBegin(eperm)
    \/ StopTimer
    \/ \E p \in Pids : WorkerListen(p)
    \/ \E p \in Pids : WorkerShutdown(p)
    \/ \E p \in Pids : WorkerExit(p)

StopSpec == StopInit /\ [][StopNext]_vars

\* The start scripts and the stop script in one run, from a machine with no
\* worker and no PID file: every process table and PID file the stop script
\* meets here is one the start scripts have produced.
LifecycleNext ==
    \/ SupNext
    \/ \E eperm \in BOOLEAN : StopBegin(eperm)
    \/ StopTimer

LifecycleSpec == SupInit /\ [][LifecycleNext]_vars

\* ------------------------------------------------- the hooks of a session

\* Everything of the worker but the Event Log.
wvarsButLog == << variant, wstate, analysisQueue, isProcessing, pendingImmediates, inflight,
                  accepted, status, analyzeCalls, startOrder, resp, now, heartbeatFile,
                  parentAlive, heartbeatTimer, shutdownCause, lastError, connOpen >>

HookRecord(type) == [type |-> type, task |-> 0, message_count |-> 0]

\* One appendFileSync(MEMORY_FILE, ...) call per record, by a hook or the worker.
AppendToLog(records) ==
    /\ memLog' = appendFileSync(memLog, records)
    /\ appendCalls' = appendCalls \o records

\* `sessionData.push(record); fs.writeFileSync(SESSION_FILE, ...)` when the
\* buffer exists.
PushToBuffer(type) ==
    IF sessionFile.exists THEN [sessionFile EXCEPT !.items = Append(@, type)]
    ELSE sessionFile

\* The number of sessions started so far.
SessionCount == Cardinality({i \in 1..Len(appendCalls) : appendCalls[i].type = "session_event"})

\* A write of a hook fails (disk full, permission denied) at `ioFail`: "log",
\* the appendFileSync to MEMORY_FILE throws; "buffer", the writeFileSync to
\* SESSION_FILE throws; "none", both succeed.

\* session-start hook: writes the heartbeat, logs the event and writes "[]"
\* to the buffer. The last two writes stand at the top level of the script,
\* outside any try.
SessionStartHook(ioFail) ==
    /\ Len(memLog) < MaxLog
    /\ heartbeatFile' = now
    /\ IF ioFail = "log" THEN UNCHANGED << memLog, appendCalls >>
       ELSE AppendToLog(<< HookRecord("session_event") >>)
    /\ sessionFile' = IF ioFail = "none"
                      THEN [exists |-> TRUE, items |-> << >>, session |-> SessionCount + 1]
                      ELSE sessionFile
    /\ hook' = IF ioFail = "none" THEN hook ELSE [hook EXCEPT !.uncaught = "session-start"]
    /\ UNCHANGED << svars, stop, llm, graphFile, kg, query >>
    /\ UNCHANGED << variant, wstate, analysisQueue, isProcessing, pendingImmediates, inflight,
                    accepted, status, analyzeCalls, startOrder, resp, now, parentAlive,
                    heartbeatTimer, shutdownCause, lastError, connOpen >>

\* user-prompt hook with a non-empty prompt: it writes the heartbeat; inside
\* the try of its 'end' handler it appends the record, then pushes it to the
\* buffer; the catch logs
UserPromptHook(ioFail) ==
    /\ Len(memLog) < MaxLog
    /\ heartbeatFile' = now
    /\ IF ioFail = "log" THEN UNCHANGED << memLog, appendCalls >>
       ELSE AppendToLog(<< HookRecord("user_message") >>)
    /\ sessionFile' = IF ioFail = "none" THEN PushToBuffer("user_message") ELSE sessionFile
    /\ ioFail = "buffer" => sessionFile.exists
    /\ UNCHANGED << svars, stop, hook, llm, graphFile, kg, query >>
    /\ UNCHANGED << variant, wstate, analysisQueue, isProcessing, pendingImmediates, inflight,
                    accepted, status, analyzeCalls, startOrder, resp, now, parentAlive,
                    heartbeatTimer, shutdownCause, lastError, connOpen >>

\* post-tool hook with a tool name: the same try and catch, no heartbeat
PostToolHook(ioFail) ==
    /\ Len(memLog) < MaxLog
    /\ IF ioFail = "log" THEN UNCHANGED << memLog, appendCalls >>
       ELSE AppendToLog(<< HookRecord("tool_execution") >>)
    /\ sessionFile' = IF ioFail = "none" THEN PushToBuffer("tool_execution") ELSE sessionFile
    /\ ioFail = "buffer" => sessionFile.exists
    /\ UNCHANGED << wvarsButLog, svars, stop, hook, llm, graphFile, kg, query >>

\* The fewest records a buffer needs for the stop hook to analyse it.
MinRecords == IF hook.copy = "submit" THEN 2 ELSE 1

\* The stop hook up to its first wait. part_004 first records the assistant
\* response, if the environment carries one, then posts the buffer to the
\* worker; scripts/stop.js hands the buffer to analyzeLocally. Both stop when
\* there is no buffer or it is too short.
StopHook(hasResponse) ==
    /\ hook.pc = "idle"
    /\ hasResponse => (hook.copy = "submit" /\ Len(memLog) < MaxLog)
    /\ LET buffer == IF hasResponse THEN PushToBuffer("assistant_message") ELSE sessionFile
       IN  /\ sessionFile' = buffer
           /\ IF hasResponse THEN AppendToLog(<< HookRecord("assistant_message") >>)
              ELSE UNCHANGED << memLog, appendCalls >>
           /\ IF ~buffer.exists \/ Len(buffer.items) < MinRecords
                THEN hook' = [hook EXCEPT !.pc = "done"]
              ELSE IF hook.copy = "submit"
                THEN hook' = [hook EXCEPT !.pc = "submitted", !.sent = buffer.items,
                                          !.session = buffer.session]
              ELSE hook' = [hook EXCEPT !.pc = "local", !.sent = buffer.items,
                                        !.session = buffer.session, !.localRuns = 1,
                                        !.pending = 1, !.localData = buffer.items]
    /\ UNCHANGED << wvarsButLog, svars, stop, llm, graphFile, kg, query >>

\* How the POST to /api/analyze can end for the hook.
SubmitOutcomes == {"202", "other", "error", "timeout"}

\* Does the hook analyse locally after this outcome
FallsBackOnErrorOnly(outcome) == outcome = "error"
FallsBack(outcome) == outcome \in {"error", "timeout"}

\* The `analyzeLocally` calls an outcome schedules: the 'error' handler
\* schedules one; the 'timeout' handler schedules one and destroys the
\* request, and the destroyed request may emit 'error' (socket hang up) too.
LocalCalls(outcome) ==
    IF ~FallsBack(outcome) THEN {0}
    ELSE IF outcome = "timeout" THEN {1, 2}
    ELSE {1}

\* The request of submitToWorker ends with `outcome`.
SubmitSettles(outcome, n) ==
    /\ hook.pc = "submitted"
    /\ n \in LocalCalls(outcome)
    /\ hook' = [hook EXCEPT !.outcome = outcome,
                             !.pc = IF outcome = "202" THEN "queued"
                                    ELSE IF n > 0 THEN "local" ELSE "done",
                             !.localRuns = n, !.pending = n,
                             !.localData = IF n > 0 THEN hook.sent ELSE << >>]
    /\ UNCHANGED << wvarsButLog, memLog, svars, stop, sessionFile, appendCalls, llm, graphFile, kg, query >>

\* The session the analysis works on, as the task the worker would queue.
SessionTask(items) == [seq |-> 1, sessionData |-> [isArray |-> TRUE, items |-> items]]

\* After the records are appended both analyzeLocally and saveAnalysisResult
\* unlink SESSION_FILE when it exists; a throw on the way skips the unlink.
BufferAfterSave(ioFail) ==
    IF ioFail = "none" THEN [sessionFile EXCEPT !.exists = FALSE, !.items = << >>]
    ELSE sessionFile

\* An analysis of `items` ends with `outcome`: the records of a result are
\* appended and the buffer removed; a null result or a throw is only logged.
AnalysisEnds(items, outcome, k, ioFail) ==
    /\ outcome \in analyzeSession(SessionTask(items).sessionData)
    /\ (outcome # "ok") => (k = 0 /\ ioFail = "none")
    /\ (ioFail = "observation") => k > 0
    /\ IF outcome = "ok"
         THEN /\ AppendToLog(SavedRecords(SessionTask(items), k, ioFail))
              /\ sessionFile' = BufferAfterSave(ioFail)
         ELSE UNCHANGED << memLog, appendCalls, sessionFile >>

\* One analyzeLocally call of the stop hook settles.
LocalSettles(outcome, k, ioFail) ==
    /\ hook.pc = "local"
    /\ AnalysisEnds(hook.localData, outcome, k, ioFail)
    /\ hook' = [hook EXCEPT !.pending = @ - 1,
                             !.pc = IF hook.pending = 1 THEN "done" ELSE "local",
                             !.analysis = [outcome |-> outcome, k |-> k, ioFail |-> ioFail]]
    /\ UNCHANGED << wvarsButLog, svars, stop, llm, graphFile, kg, query >>

\* The worker's processQueue settles the task the hook submitted.
WorkerSettles(outcome, k, ioFail) ==
    /\ hook.pc = "queued"
    /\ AnalysisEnds(hook.sent, outcome, k, ioFail)
    /\ hook' = [hook EXCEPT !.pc = "done",
                             !.analysis = [outcome |-> outcome, k |-> k, ioFail |-> ioFail]]
    /\ UNCHANGED << wvarsButLog, svars, stop, llm, graphFile, kg, query >>

HookInit ==
    /\ variant = "plugin"
    /\ WorkerSpawned
    /\ startScript = "probe"
    /\ SupervisorIdle
    /\ stop = IdleStop
    /\ hook \in {[IdleHook EXCEPT !.copy = c] : c \in StopHooks}
    /\ sessionFile = NoFile
    /\ appendCalls = << >>
    /\ llm = IdleLlm
    /\ GraphIdle

HookNext ==
    \/ \E ioFail \in {"none", "log", "buffer"} : SessionStartHook(ioFail)
    \/ \E ioFail \in {"none", "log", "buffer"} : UserPromptHook(ioFail)
    \/ \E ioFail \in {"none", "log", "buffer"} : PostToolHook(ioFail)
    \/ \E hasResponse \in BOOLEAN : StopHook(hasResponse)
    \/ \E outcome \in SubmitOutcomes, n \in 0..2 : SubmitSettles(outcome, n)
    \/ \E outcome \in {"null", "throw", "ok"}, k \in ObsCounts, ioFail \in IoFailures :
          LocalSettles(outcome, k, ioFail)
    \/ \E outcome \in {"null", "throw", "ok"}, k \in {0, 1, 2}, ioFail \in IoFailures :
          WorkerSettles(outcome, k, ioFail)

HookSpec == HookInit /\ [][HookNext]_vars

\* ------------------------------------------------- the LLM analysis client

DefaultModel == "claude-3-5-haiku-20241022"
DefaultBaseUrl == "https://api.anthropic.com"

\* process.env.ANTHROPIC_DEFAULT_HAIKU_MODEL || 'claude-3-5-haiku-20241022'
ModelOf(env) == IF env.envModel THEN "ANTHROPIC_DEFAULT_HAIKU_MODEL" ELSE DefaultModel

\* process.env.ANTHROPIC_BASE_URL || 'https://api.anthropic.com'
BaseUrlOf(env) == IF env.baseUrl = "unset" THEN DefaultBaseUrl ELSE env.baseUrl

\* getApiConfig()
getApiConfig(env) ==
    IF env.authToken
      THEN [source |-> "claude_code", model |-> ModelOf(env), baseUrl |-> BaseUrlOf(env)]
    ELSE IF env.apiKey
      THEN [source |-> "user_config", model |-> ModelOf(env), baseUrl |-> BaseUrlOf(env)]
    ELSE NoConfig

\* new URL(baseUrl + '/v1/messages') throws
InvalidUrl(config) == config.baseUrl = "invalid"

\* What the endpoint can send back once it answers: the connection fails
\* ('error'), a status outside 2xx, a 2xx body that is no JSON, a 2xx JSON
\* whose text holds no JSON object, or a summary.
Responses == {"error", "status", "unparseable", "nojson", "summary"}

\* generateSessionSummary: the try/catch turns every rejection of
\* callClaudeAPI and every parse failure into null.
generateSessionSummary(response) == IF response = "summary" THEN "ok" ELSE "null"

\* analyzeSession(sessionData) up to its first wait: no credentials give null;
\* `for (const record of sessionData)` throws on a value that is not iterable;
\* without a user message the result is null; an invalid base URL throws inside
\* the promise of callClaudeAPI, which generateSessionSummary catches; else the
\* request is written and the call waits for the endpoint, which answers some
\* time or never (`endpoint`).
LlmCall(endpoint) ==
    /\ llm.pc = "idle"
    /\ LET config == getApiConfig(llm.env)
           ends(result) == [llm EXCEPT !.pc = "done", !.config = config, !.result = result]
       IN  llm' = IF config = NoConfig THEN ends("null")
                  ELSE IF ~llm.input.isArray THEN ends("throw")
                  ELSE IF ~HasUserMessage(llm.input) THEN ends("null")
                  ELSE IF InvalidUrl(config) THEN ends("null")
                  ELSE [llm EXCEPT !.pc = "awaiting", !.config = config,
                                   !.requests = @ + 1, !.endpoint = endpoint]
    /\ UNCHANGED << wvars, svars, stop, hook, sessionFile, appendCalls, graphFile, kg, query >>

\* The endpoint answers and the promise of callClaudeAPI settles. Nothing
\* else settles it: the request carries no timeout.
LlmResponds(response) ==
    /\ llm.pc = "awaiting"
    /\ llm.endpoint = "answers"
    /\ llm' = [llm EXCEPT !.pc = "done", !.response = response,
                           !.result = generateSessionSummary(response)]
    /\ UNCHANGED << wvars, svars, stop, hook, sessionFile, appendCalls, graphFile, kg, query >>

LlmSettles == \E response \in Responses : LlmResponds(response)

LlmInit ==
    /\ variant = "plugin"
    /\ WorkerSpawned
    /\ startScript = "probe"
    /\ SupervisorIdle
    /\ stop = IdleStop
    /\ hook = IdleHook
    /\ sessionFile = NoFile
    /\ appendCalls = << >>
    /\ GraphIdle
    /\ llm \in {[IdleLlm EXCEPT !.env = e, !.input = d] :
                   e \in Envs, d \in SessionDatas \cup {Undefined}}

LlmNext ==
    \/ \E endpoint \in {"answers", "silent"} : LlmCall(endpoint)
    \/ LlmSettles

LlmSpec == LlmInit /\ [][LlmNext]_vars

\* ------------------------------------------------ knowledge graph builder
\* knowledge_graph_builder.js turns the session_summary and observation records
\* of MEMORY_FILE into entity and relation lines of GRAPH_FILE.  A string is
\* the sequence of its characters; a fixed Chinese word or label of the source
\* is one character, written in English or pinyin ("investigated: " for the
\* label of summary.investigated, "session_" for the prefix of a session name).

MaxRecords == 3
MaxGraphLines == 6

\* String.prototype.toLowerCase over the alphabet in use
toLowerCase(s) == [i \in 1..Len(s) |-> CASE s[i] = "S" -> "s" [] s[i] = "L" -> "l" [] OTHER -> s[i]]

\* String.prototype.includes
includes(s, k) == \E i \in 0..(Len(s) - Len(k)) : SubSeq(s, i + 1, i + Len(k)) = k

\* obs.endsWith(': ') : nothing follows the label the string starts with
endsWithColonSpace(s) ==
    /\ s # << >>
    /\ s[Len(s)] \in {"investigated: ", "learned: ", "completed: ", "next_steps: ", "time: ",
                      "message_count: ", "insight: ", "concepts: ", "files: "}

\* a number inside a template literal
RECURSIVE NumberToString(_)
NumberToString(n) ==
    LET digits == << "0", "1", "2", "3", "4", "5", "6", "7", "8", "9" >>
    IN  IF n < 10 THEN << digits[n + 1] >>
        ELSE NumberToString(n \div 10) \o << digits[(n % 10) + 1] >>

\* Array.prototype.slice(0, n)
Slice(s, n) == SubSeq(s, 1, IF Len(s) < n THEN Len(s) ELSE n)

\* randomUUID(): eight characters p, then the character t
Uuids == { [i \in 1..9 |-> IF i <= 8 THEN p ELSE t] : p \in {"a", "b"}, t \in {"1", "2"} }

\* text.replace(/[^\w\s...]/g, ' ').split(/\s+/): a character that is no letter,
\* digit or blank counts as a blank, and the text is split at the blanks
RECURSIVE SplitWords(_, _)
SplitWords(text, word) ==
    IF text = << >> THEN << word >>
    ELSE IF Head(text) \in {" ", ".", ","}
         THEN << word >> \o SplitWords(Tail(text), << >>)
         ELSE SplitWords(Tail(text), Append(word, Head(text)))

\* the distinct elements of a sequence, in the order of first occurrence
RECURSIVE Distinct(_)
Distinct(s) == IF s = << >> THEN << >>
               ELSE << Head(s) >> \o Distinct(SelectSeq(Tail(s), LAMBDA w : w # Head(s)))

\* extractKeywordsSimple of the builder: the words of two characters and more
\* that are no stop word (a shorter stop word goes for its length), by falling
\* count, those of equal count in the order of first occurrence; five at most
extractKeywordsSimple(text) ==
    LET stopWords == { << "mei", "you" >>, << "xi", "tong" >>, << "shi", "yong" >> }
        words == SelectSeq(SplitWords(text, << >>),
                           LAMBDA w : Len(w) >= 2 /\ w \notin stopWords)
        wordCount(w) == Cardinality({ i \in DOMAIN words : words[i] = w })
        RECURSIVE Sorted(_)
        Sorted(ds) ==
            IF ds = << >> THEN << >>
            ELSE LET best == CHOOSE i \in DOMAIN ds :
                                /\ \A j \in DOMAIN ds : wordCount(ds[j]) <= wordCount(ds[i])
                                /\ \A j \in 1..(i - 1) : wordCount(ds[j]) < wordCount(ds[i])
                 IN  << ds[best] >> \o
                     Sorted(SubSeq(ds, 1, best - 1) \o SubSeq(ds, best + 1, Len(ds)))
    IN  Slice(Sorted(Distinct(words)), 5)

extractEntitiesFromSummary(summary) ==
    LET name == << "session_" >> \o Slice(summary.id, 8)
        sessionEntity ==
            [type |-> "entity",
             name |-> name,
             entityType |-> << "session" >>,
             project |-> summary.project,
             observations |->
                 SelectSeq(<< << "investigated: " >> \o summary.investigated,
                              << "learned: " >> \o summary.learned,
                              << "completed: " >> \o summary.completed,
                              << "next_steps: " >> \o summary.next_steps,
                              << "time: " >> \o summary.timestamp,
                              << "message_count: " >> \o NumberToString(summary.message_count) >>,
                           LAMBDA obs : ~endsWithColonSpace(obs)),
             timestamp |-> summary.timestamp]
        keywords == Slice(extractKeywordsSimple(summary.investigated \o << " " >> \o
                                                summary.learned \o << " " >> \o
                                                summary.completed), 3)
    IN  [entities |-> << sessionEntity >> \o
                      [i \in DOMAIN keywords |->
                          [type |-> "entity",
                           name |-> keywords[i],
                           entityType |-> << "concept" >>,
                           project |-> summary.project,
                           observations |-> << << "mentioned: " >> \o summary.timestamp >>,
                           timestamp |-> summary.timestamp]],
         relations |-> [i \in DOMAIN keywords |->
                          [type |-> "relation",
                           from |-> name,
                           to |-> keywords[i],
                           relationType |-> << "involves" >>,
                           project |-> summary.project]]]

extractEntitiesFromObservation(observation) ==
    LET name == IF observation.title # << >> THEN observation.title
                ELSE << "observation_" >> \o Slice(observation.id, 8)
        \* Array.prototype.join(', ')
        RECURSIVE Join(_)
        Join(strings) == IF strings = << >> THEN << >>
                         ELSE IF Len(strings) = 1 THEN strings[1]
                         ELSE strings[1] \o << ",", " " >> \o Join(Tail(strings))
        obsEntity ==
            [type |-> "entity",
             name |-> name,
             entityType |-> observation.obs_type,
             project |-> observation.project,
             observations |->
                 SelectSeq(<< << "insight: " >> \o observation.insight,
                              << "concepts: " >> \o Join(observation.concepts),
                              << "files: " >> \o Join(observation.files),
                              << "time: " >> \o observation.timestamp >>,
                           LAMBDA obs : ~endsWithColonSpace(obs)),
             timestamp |-> observation.timestamp]
        files == SelectSeq(observation.files, LAMBDA file : file # << >>)
    IN  [entities |-> << obsEntity >> \o
                      [i \in DOMAIN files |->
                          [type |-> "entity",
                           name |-> files[i],
                           entityType |-> << "file" >>,
                           project |-> observation.project,
                           observations |-> << observation.obs_type \o << "op: " >> \o
                                               observation.timestamp >>,
                           timestamp |-> observation.timestamp]],
         relations |-> [i \in DOMAIN files |->
                          [type |-> "relation",
                           from |-> name,
                           to |-> files[i],
                           relationType |-> << "involves_file" >>,
                           project |-> observation.project]]]

\* the dispatch on record.type both builders make; a record of another type
\* derives nothing
Extract(record) ==
    IF record.type = "session_summary" THEN extractEntitiesFromSummary(record)
    ELSE IF record.type = "observation" THEN extractEntitiesFromObservation(record)
    ELSE [entities |-> << >>, relations |-> << >>]

\* allEntities, a Map keyed by name: a name met again has the new observations
\* pushed onto the entry it already has
ReplaceOnSameName(existing, entity) == entity
MergeEntity(existing, entity) ==
    [existing EXCEPT !.observations = existing.observations \o entity.observations]

\* the key of uniqueRelations
RelationKey(rel) == << rel.from, rel.relationType, rel.to >>

AppendToGraph(old, graphData) == old \o graphData
\* fs.writeFileSync(GRAPH_FILE, ...)
writeFileSync(old, graphData) == graphData

\* buildKnowledgeGraph(): the lines it writes for a log.  allEntities is a Map
\* keyed by name; uniqueRelations is a Map keyed by from|relationType|to, in
\* which a key keeps the place of its first relation and the value of its last.
GraphOf(log) ==
    LET RECURSIVE MergeEntities(_, _)
        MergeEntities(allEntities, entities) ==
            IF entities = << >> THEN allEntities
            ELSE LET entity == Head(entities)
                     at == { i \in DOMAIN allEntities : allEntities[i].name = entity.name }
                 IN  MergeEntities(
                         IF at # {}
                         THEN [i \in DOMAIN allEntities |->
                                  IF i \in at THEN MergeEntity(allEntities[i], entity)
                                  ELSE allEntities[i]]
                         ELSE Append(allEntities, entity),
                         Tail(entities))
        RECURSIVE UniqueRelations(_, _)
        UniqueRelations(unique, rels) ==
            IF rels = << >> THEN unique
            ELSE LET rel == Head(rels)
                     at == { i \in DOMAIN unique : RelationKey(unique[i]) = RelationKey(rel) }
                 IN  UniqueRelations(
                         IF at # {}
                         THEN [i \in DOMAIN unique |-> IF i \in at THEN rel ELSE unique[i]]
                         ELSE Append(unique, rel),
                         Tail(rels))
        \* the loop over the lines of MEMORY_FILE
        RECURSIVE FoldLog(_, _)
        FoldLog(acc, lines) ==
            IF lines = << >> THEN acc
            ELSE LET result == Extract(Head(lines))
                 IN  FoldLog([entities |-> MergeEntities(acc.entities, result.entities),
                              relations |-> acc.relations \o result.relations],
                             Tail(lines))
        all == FoldLog([entities |-> << >>, relations |-> << >>], log)
    IN  all.entities \o UniqueRelations(<< >>, all.relations)

\* newRecords of buildKnowledgeGraphIncremental: processedIds holds what
\* follows "session_" in the name of each session entity of the graph
newRecords(log, graph) ==
    LET processedIds ==
            { SubSeq(graph[i].name, 2, Len(graph[i].name)) :
                i \in { j \in DOMAIN graph : /\ graph[j].type = "entity"
                                             /\ Slice(graph[j].name, 1) = << "session_" >> } }
    IN  SelectSeq(log, LAMBDA record :
            /\ record.type \in {"session_summary", "observation"}
            /\ Slice(record.id, 8) \notin processedIds)

RECURSIVE Flatten(_, _)
Flatten(records, field) ==
    IF records = << >> THEN << >>
    ELSE Extract(Head(records))[field] \o Flatten(Tail(records), field)

\* the lines an incremental run appends: the new entities, then the new
\* relations
IncrementOf(log, graph) ==
    Flatten(newRecords(log, graph), "entities") \o Flatten(newRecords(log, graph), "relations")

\* what analyzeSession hands to saveAnalysisResult in this specification:
\* nothing or "ssl ssl xitong" investigated, and no observation or one
Analyses ==
    LET ssl == << "s", "s", "l" >>
        clientJs == << "c", ".", "j", "s" >>
    IN  { [investigated |-> inv, learned |-> << >>, completed |-> << >>,
           next_steps |-> << >>, observations |-> obs] :
            inv \in { << >>, ssl \o << " " >> \o ssl \o << " ", "xi", "tong" >> },
            obs \in { << >>,
                      << [type |-> << "bugfix" >>, title |-> ssl,
                          insight |-> << "S", "S", "L" >>,
                          concepts |-> << >>, files |-> << >>] >>,
                      << [type |-> << "bugfix" >>, title |-> << >>, insight |-> << >>,
                          concepts |-> << ssl >>, files |-> << clientJs, clientJs >>] >> } }

\* everything but MEMORY_FILE, GRAPH_FILE and the builder
besideGraph == << wvarsButLog, svars, stop, hook, sessionFile, appendCalls, llm >>

\* saveAnalysisResult(analysis, sessionData) of the worker: one session_summary
\* record, then one observation record per observation, each with an id of
\* its own; the worker writes no project and does not touch GRAPH_FILE
saveAnalysisResult(analysis, ids, timestamp, count) ==
    LET summaryRecord ==
            [id |-> ids[1], type |-> "session_summary",
             investigated |-> analysis.investigated, learned |-> analysis.learned,
             completed |-> analysis.completed, next_steps |-> analysis.next_steps,
             timestamp |-> timestamp, message_count |-> count, project |-> << >>]
        obsRecords ==
            [i \in DOMAIN analysis.observations |->
                [id |-> ids[i + 1], type |-> "observation",
                 obs_type |-> analysis.observations[i].type,
                 title |-> analysis.observations[i].title,
                 insight |-> analysis.observations[i].insight,
                 concepts |-> analysis.observations[i].concepts,
                 files |-> analysis.observations[i].files,
                 timestamp |-> timestamp, project |-> << >>]]
    IN  /\ Len(ids) = 1 + Len(analysis.observations)
        /\ \A i, j \in DOMAIN ids : i # j => ids[i] # ids[j]
        /\ \A i \in DOMAIN ids, j \in DOMAIN memLog :
              IF memLog[j].type = "user_message" THEN TRUE ELSE memLog[j].id # ids[i]
        /\ Len(memLog) + Len(ids) <= MaxRecords
        /\ memLog' = appendFileSync(memLog, << summaryRecord >> \o obsRecords)
        /\ kg' = [kg EXCEPT !.dirty = TRUE, !.rebuilds = 0]
        /\ UNCHANGED << besideGraph, graphFile, query >>

\* a capture hook appends a record the builder does not read
CaptureHook ==
    /\ Len(memLog) < MaxRecords
    /\ memLog' = appendFileSync(memLog, << [type |-> "user_message"] >>)
    /\ kg' = [kg EXCEPT !.dirty = TRUE, !.rebuilds = 0]
    /\ UNCHANGED << besideGraph, graphFile, query >>

\* node knowledge_graph_builder.js --full
buildKnowledgeGraph ==
    /\ IF memLog = << >>
       THEN UNCHANGED << graphFile, kg >>
       ELSE /\ graphFile' = writeFileSync(graphFile, GraphOf(memLog))
            /\ kg' = [last |-> "full", dirty |-> FALSE,
                      rebuilds |-> IF kg.rebuilds < 2 THEN kg.rebuilds + 1 ELSE 2,
                      full |-> graphFile', before |-> graphFile]
    /\ UNCHANGED << besideGraph, memLog, query >>

\* node knowledge_graph_builder.js
buildKnowledgeGraphIncremental ==
    /\ Len(graphFile) + Len(IncrementOf(memLog, graphFile)) <= MaxGraphLines
    /\ IF memLog = << >>
       THEN UNCHANGED << graphFile, kg >>
       ELSE /\ graphFile' = IF newRecords(memLog, graphFile) = << >> THEN graphFile
                            ELSE appendFileSync(graphFile, IncrementOf(memLog, graphFile))
            /\ kg' = [kg EXCEPT !.last = "incremental", !.dirty = FALSE]
    /\ UNCHANGED << besideGraph, memLog, query >>

GraphInit ==
    /\ variant = "plugin"
    /\ WorkerSpawned
    /\ startScript = "probe"
    /\ SupervisorIdle
    /\ HooksIdle

SaveSteps ==
    \E analysis \in Analyses, timestamp \in { << "D", "1" >> }, count \in {2} :
        \E ids \in { << a >> : a \in Uuids } \cup { << a, b >> : a, b \in Uuids } :
            saveAnalysisResult(analysis, ids, timestamp, count)

GraphNext ==
    \/ SaveSteps
    \/ CaptureHook
    \/ buildKnowledgeGraph
    \/ buildKnowledgeGraphIncremental

GraphSpec == GraphInit /\ [][GraphNext]_vars

\* The worker gets to save what it analysed; nothing schedules the builder,
\* which runs when somebody starts it from a shell.
GraphLiveSpec == GraphSpec /\ WF_vars(SaveSteps)

\* ------------------------------------------------ memory injection hook
\* user_prompt.js (the injector): reads the prompt from stdin, searches
\* GRAPH_FILE for entities that match its keywords and writes the prompt back
\* with the formatted memory in front of it.

MaxQueryLines == 3

DEFAULT_CONFIG ==
    [enabled |-> TRUE, max_entities |-> 5, show_marker |-> TRUE, debug |-> TRUE,
     use_llm_keywords |-> TRUE, min_score_threshold |-> 30]

\* loadConfig(): the keys of memory_config.json laid over DEFAULT_CONFIG; a
\* key neither of them has reads as undefined, which is falsy
loadConfig(file) ==
    [k \in DOMAIN DEFAULT_CONFIG \cup DOMAIN file \cup
           {"project_isolation", "include_other_projects"} |->
        IF k \in DOMAIN file THEN file[k]
        ELSE IF k \in DOMAIN DEFAULT_CONFIG THEN DEFAULT_CONFIG[k]
        ELSE FALSE]

\* extractKeywords(text, config): the keywords of the LLM when it is enabled,
\* configured and answers with a non-empty array, otherwise those of
\* extractKeywordsSimple of the injector: lower case, split, words of two
\* characters and more that are no stop word, each once
extractKeywords(text, config, llmAnswer) ==
    LET stopWords == { << "mei", "you" >>, << "zi", "ji" >>, << "ru", "he" >> }
    IN  IF config.use_llm_keywords /\ llmAnswer # << >> THEN llmAnswer
        ELSE Distinct(SelectSeq(SplitWords(toLowerCase(text), << >>),
                                LAMBDA w : Len(w) >= 2 /\ w \notin stopWords))

\* the time weight: new Date(entity.timestamp) reads "D" and the two digits of
\* a day; any other string is an invalid date, whose distance to now is NaN
\* and below no limit
daysSince(timestamp, today) ==
    LET digit(c) == CHOOSE n \in 0..9 : NumberToString(n) = << c >>
    IN  today - (10 * digit(timestamp[2]) + digit(timestamp[3]))
TiersAddUp(timestamp, today) ==
    IF timestamp = << >> \/ Len(timestamp) # 3 THEN 0
    ELSE (IF daysSince(timestamp, today) < 7 THEN 3 ELSE 0)
         + (IF daysSince(timestamp, today) < 30 THEN 1 ELSE 0)
recencyBonus(timestamp, today) ==
    IF timestamp = << >> \/ Len(timestamp) # 3 THEN 0
    ELSE IF daysSince(timestamp, today) < 7 THEN 3
    ELSE IF daysSince(timestamp, today) < 30 THEN 1
    ELSE 0

\* the score of one entity, as the loops of searchKnowledgeGraph add it up
Score(entity, keywords, today) ==
    LET matches(s, k) == includes(toLowerCase(s), toLowerCase(keywords[k]))
        RECURSIVE OverKeywords(_, _)
        OverKeywords(s, k) ==
            IF k > Len(keywords) THEN 0
            ELSE (IF matches(s, k) THEN 1 ELSE 0) + OverKeywords(s, k + 1)
        RECURSIVE OverObservations(_)
        OverObservations(o) ==
            IF o > Len(entity.observations) THEN 0
            ELSE 2 * OverKeywords(entity.observations[o], 1) + OverObservations(o + 1)
    IN  10 * OverKeywords(entity.name, 1) + OverObservations(1)
        + recencyBonus(entity.timestamp, today)

\* the project isolation filter: is this line of the graph skipped
NeverSkipped(item, config, currentProject) == FALSE
Skipped(item, config, currentProject) ==
    /\ config.project_isolation
    /\ item.project # << >>
    /\ item.project # currentProject
    /\ ~config.include_other_projects

\* scoredEntities.sort((a, b) => b.score - a.score): stable, by falling score
RECURSIVE sortAscending(_)
sortAscending(scored) ==
    IF scored = << >> THEN << >>
    ELSE LET best == CHOOSE i \in DOMAIN scored :
                        /\ \A j \in DOMAIN scored : scored[j].score >= scored[i].score
                        /\ \A j \in 1..(i - 1) : scored[j].score > scored[i].score
         IN  << scored[best] >> \o
             sortAscending(SubSeq(scored, 1, best - 1) \o SubSeq(scored, best + 1, Len(scored)))
RECURSIVE sortByScore(_)
sortByScore(scored) ==
    IF scored = << >> THEN << >>
    ELSE LET best == CHOOSE i \in DOMAIN scored :
                        /\ \A j \in DOMAIN scored : scored[j].score <= scored[i].score
                        /\ \A j \in 1..(i - 1) : scored[j].score < scored[i].score
         IN  << scored[best] >> \o
             sortByScore(SubSeq(scored, 1, best - 1) \o SubSeq(scored, best + 1, Len(scored)))

\* searchKnowledgeGraph(userInput, config): what it loads, the keywords, the
\* scored entities and what it returns; `threw` when readFileSync fails or
\* when the first keyword of the LLM is no string and there is an entity to
\* match it against (keyword.toLowerCase is not a function)
searchKnowledgeGraph(userInput, config, q) ==
    LET loaded == SelectSeq(graphFile, LAMBDA item : ~Skipped(item, config, q.project))
        entities == SelectSeq(loaded, LAMBDA item : item.type = "entity")
        relations == SelectSeq(loaded, LAMBDA item : item.type = "relation")
        keywords == extractKeywords(userInput, config, q.llmAnswer)
        scored == sortByScore(SelectSeq(
                      [i \in DOMAIN entities |->
                          [entity |-> entities[i], score |-> Score(entities[i], keywords, q.today)]],
                      LAMBDA s : s.score > 0))
        minScore == IF config.min_score_threshold = 0 THEN 30 ELSE config.min_score_threshold
        maxEntities == IF config.max_entities = 0 THEN 5 ELSE config.max_entities
        topEntities == Slice(SelectSeq(scored, LAMBDA s : s.score >= minScore), maxEntities)
        relevantEntities == [i \in DOMAIN topEntities |-> topEntities[i].entity]
        entityNames == { relevantEntities[i].name : i \in DOMAIN relevantEntities }
        relevantRelations == SelectSeq(relations, LAMBDA r : r.from \in entityNames \/ r.to \in entityNames)
        nothing == [threw |-> FALSE, loaded |-> << >>, keywords |-> << >>, scored |-> << >>,
                    entities |-> << >>, relations |-> << >>]
    IN  IF graphFile = << >> THEN nothing
        ELSE IF q.fault = "graph" THEN [nothing EXCEPT !.threw = TRUE]
        ELSE IF keywords = << >> THEN [nothing EXCEPT !.loaded = loaded]
        ELSE IF /\ q.fault = "keyword" /\ config.use_llm_keywords /\ q.llmAnswer # << >>
                /\ entities # << >>
             THEN [nothing EXCEPT !.threw = TRUE, !.loaded = loaded]
        ELSE [threw |-> FALSE, loaded |-> loaded, keywords |-> keywords, scored |-> scored,
              entities |-> relevantEntities, relations |-> Slice(relevantRelations, 5)]

\* formatMemoryContext(memoryData, config)
FormatUnguarded(memoryData, config) == << "<relevant_memory>", "</relevant_memory>" >>
formatMemoryContext(memoryData, config) ==
    LET RECURSIVE Lines(_)
        Lines(observations) ==
            IF observations = << >> THEN << >>
            ELSE (IF \E i \in DOMAIN Head(observations) : Head(observations)[i] # " "
                  THEN << "  - " >> \o Head(observations) \o << "\n" >> ELSE << >>)
                 \o Lines(Tail(observations))
        RECURSIVE Entities(_)
        Entities(entities) ==
            IF entities = << >> THEN << >>
            ELSE << "**" >> \o Head(entities).name \o << "** (" >> \o Head(entities).entityType
                 \o << "):\n" >> \o Lines(Slice(Head(entities).observations, 3)) \o << "\n" >>
                 \o Entities(Tail(entities))
        RECURSIVE Relations(_)
        Relations(relations) ==
            IF relations = << >> THEN << >>
            ELSE << "  - " >> \o Head(relations).from \o << " " >> \o Head(relations).relationType
                 \o << " " >> \o Head(relations).to \o << "\n" >> \o Relations(Tail(relations))
    IN  IF memoryData.entities = << >> THEN << >>
        ELSE (IF config.show_marker THEN << "\n\n", "[marker]", "\n\n" >> ELSE << "\n\n" >>)
             \o << "<relevant_memory>", "\n", "[header]", "\n\n" >>
             \o Entities(memoryData.entities)
             \o (IF memoryData.relations # << >>
                 THEN << "[relations]", "\n" >> \o Relations(memoryData.relations) \o << "\n" >>
                 ELSE << >>)
             \o << "</relevant_memory>", "\n\n" >>
             \o (IF config.debug
                 THEN << "<!-- " >> \o NumberToString(Len(memoryData.entities)) \o << " -->", "\n\n" >>
                 ELSE << >>)

\* console.log(inputData) of the catch block
DropsInput(inputData) == [parses |-> FALSE, prompt |-> << >>, content |-> << >>]
EchoInput(inputData) == inputData

\* the handler of process.stdin's 'end': the whole run of the hook
InjectMemory ==
    LET config == loadConfig(query.file)
        data == query.stdin
        userInput == IF data.prompt # << >> THEN data.prompt ELSE data.content
        memoryData == searchKnowledgeGraph(userInput, config, query)
        memoryContext == formatMemoryContext(memoryData, config)
        enhancedPrompt == IF memoryData.entities # << >> THEN memoryContext \o userInput
                          ELSE userInput
        ran == [query EXCEPT !.pc = "done"]
    IN  /\ query.pc = "idle"
        /\ query' =
             IF ~config.enabled
             THEN [ran EXCEPT !.stdout = EchoInput(query.stdin)]
             ELSE IF ~data.parses
             THEN [ran EXCEPT !.threw = TRUE, !.stdout = EchoInput(query.stdin)]
             ELSE IF userInput = << >>
             THEN [ran EXCEPT !.stdout = EchoInput(query.stdin)]
             ELSE IF memoryData.threw
             THEN [ran EXCEPT !.threw = TRUE, !.searched = TRUE, !.memory = memoryData,
                              !.stdout = EchoInput(query.stdin)]
             ELSE [ran EXCEPT !.searched = TRUE, !.memory = memoryData,
                              !.stdout = [data EXCEPT !.prompt = enhancedPrompt,
                                                      !.content = enhancedPrompt]]
        /\ UNCHANGED << besideGraph, memLog, graphFile, kg >>

\* The hook is about to run: a graph file of up to MaxQueryLines lines, a
\* configuration file, a prompt on stdin, what the LLM answers when asked for
\* keywords, and what goes wrong.
QueryInit ==
    LET ssl == << "s", "s", "l" >>
        tls == << "t", "l", "s" >>
        bug == << "b", "u", "g" >>
        mine == << "m" >>
        other == << "o" >>
        entity(name, project, observations, timestamp) ==
            [type |-> "entity", name |-> name, entityType |-> << "concept" >>,
             project |-> project, observations |-> observations, timestamp |-> timestamp]
        relation(from, to, project) ==
            [type |-> "relation", from |-> from, to |-> to,
             relationType |-> << "involves" >>, project |-> project]
        twice == << << "insight: ", "S", "S", "L" >>, ssl \o << " " >> \o bug >>
        lines == { entity(ssl, << >>, twice, << "D", "3", "9" >>),
                   entity(tls, << >>, twice, << "D", "3", "9" >>),
                   entity(ssl, other, << >>, << "D", "1", "0" >>),
                   entity(bug, mine, << ssl \o << " " >> \o bug >>, << "D", "3", "3" >>),
                   relation(ssl, tls, << >>),
                   relation(bug, ssl, other) }
        files == { << >>,
                   [min_score_threshold |-> 12],
                   [min_score_threshold |-> 12, max_entities |-> 1],
                   [min_score_threshold |-> 12, max_entities |-> 0],
                   [min_score_threshold |-> 0],
                   [min_score_threshold |-> 5, project_isolation |-> TRUE],
                   [min_score_threshold |-> 5, project_isolation |-> TRUE,
                    include_other_projects |-> TRUE],
                   [enabled |-> FALSE] }
        stdins == { [parses |-> FALSE, prompt |-> << >>, content |-> << >>],
                    [parses |-> TRUE, prompt |-> << >>, content |-> << >>],
                    [parses |-> TRUE, prompt |-> ssl, content |-> ssl],
                    [parses |-> TRUE, prompt |-> << "a" >>, content |-> tls],
                    [parses |-> TRUE, prompt |-> << >>,
                     content |-> << "S", "S", "L", " " >> \o bug \o << ".", "a" >>] }
    IN  /\ variant = "plugin"
        /\ WorkerSpawned
        /\ startScript = "probe"
        /\ SupervisorIdle
        /\ stop = IdleStop
        /\ hook = IdleHook
        /\ sessionFile = NoFile
        /\ appendCalls = << >>
        /\ llm = IdleLlm
        /\ kg = [last |-> "none", dirty |-> FALSE, rebuilds |-> 0, full |-> << >>,
                 before |-> << >>]
        /\ graphFile \in UNION { [1..n -> lines] : n \in 0..MaxQueryLines }
        /\ query \in { [IdleQuery EXCEPT !.file = file, !.stdin = stdin, !.fault = fault,
                                         !.llmAnswer = answer] :
                         file \in files, stdin \in stdins,
                         fault \in {"none", "graph", "keyword"},
                         answer \in { << >>, << ssl, << "s", "s" >>, << "S" >> >> } }

QueryNext == InjectMemory

QuerySpec == QueryInit /\ [][QueryNext]_vars

\* ------------------------------------------------ reading the Event Log
\* readMemoryFile, getStats and the GET handlers built on them, in the three
\* copies of the worker.

StatsWindow == 1000
DefaultLimit == 100

\* JSON.parse(line): a line that appendFileSync wrote from JSON.stringify is
\* its record; a line that carries `parses` is text found in the file, which
\* parses to the record it spells or not at all (null stands for the throw)
readMemoryFile(limit) ==
    LET lines == memLog
        \* Array.prototype.slice(-limit): -0 is 0, the whole array
        recentLines == IF limit = 0 \/ limit >= Len(lines) THEN lines
                       ELSE SubSeq(lines, Len(lines) - limit + 1, Len(lines))
        Throws(line) == IF "parses" \in DOMAIN line THEN ~line.parses ELSE FALSE
        JSONparse(line) == [f \in (DOMAIN line) \ {"parses"} |-> line[f]]
        parsed == SelectSeq(recentLines, LAMBDA line : ~Throws(line))
    IN  [i \in DOMAIN parsed |-> JSONparse(parsed[i])]

\* GET /api/records?limit=N&type=T
GetRecords(url) ==
    LET limit == IF url.limit = << >> THEN DefaultLimit ELSE url.limit[1]
        records == IF url.type # ""
                   THEN SelectSeq(readMemoryFile(limit), LAMBDA r : r.type = url.type)
                   ELSE readMemoryFile(limit)
    IN  /\ Serving
        /\ resp' = [op |-> "records", code |-> 200, url |-> url,
                    total |-> Len(records), records |-> records]
        /\ UNCHANGED << svars, hvars, variant, qvars, envvars, lifevars, lastError, connOpen >>

\* GET /api/stats (and the stats member of GET /health): getStats() of the
\* copy that runs. worker.js and part_006 count the records that
\* readMemoryFile(1000) returns; worker/worker.js reads the whole file, takes
\* the number of its non-blank lines as the total and counts by type the
\* lines that parse.
GetStats ==
    LET typeOf(record) == IF record.type = "" THEN "unknown" ELSE record.type
        by_type(records) ==
            [t \in { typeOf(records[i]) : i \in DOMAIN records } |->
                Cardinality({ i \in DOMAIN records : typeOf(records[i]) = t })]
        recent == readMemoryFile(StatsWindow)
        whole == readMemoryFile(0)
        getStats ==
            IF variant = "ui"
            THEN [total |-> Len(memLog), by_type |-> by_type(whole),
                  sessions |-> Cardinality({ i \in DOMAIN whole :
                                  whole[i].type = "session_event" /\ whole[i].event = "session_start" })]
            ELSE [total |-> Len(recent), by_type |-> by_type(recent),
                  sessions |-> Cardinality({ i \in DOMAIN recent : recent[i].type = "session_event" })]
    IN  /\ Serving
        /\ resp' = [op |-> "stats", code |-> 200, stats |-> getStats]
        /\ UNCHANGED << svars, hvars, variant, qvars, envvars, lifevars, lastError, connOpen >>

\* A worker that listens beside an Event Log that hooks, workers and other
\* hands have written: up to MaxLog lines of every kind, or one line more
\* than getStats reads.
ReadInit ==
    LET lines == { [parses |-> TRUE, type |-> "session_event", event |-> "session_start"],
                   [parses |-> TRUE, type |-> "observation", event |-> ""],
                   [parses |-> TRUE, type |-> "", event |-> ""],
                   [parses |-> FALSE, type |-> "observation", event |-> ""] }
    IN  /\ variant \in Variants
        /\ wstate = "listening"
        /\ analysisQueue = << >>
        /\ isProcessing = FALSE
        /\ pendingImmediates = 0
        /\ inflight = {}
        /\ accepted = 0
        /\ status = [t \in Tasks |-> "none"]
        /\ analyzeCalls = [t \in Tasks |-> 0]
        /\ startOrder = << >>
        /\ memLog \in UNION { [1..n -> lines] : n \in 0..MaxLog }
                      \cup { [i \in 1..(StatsWindow + 1) |-> line] : line \in lines }
        /\ resp = NoResp
        /\ now = 0
        /\ heartbeatFile = Absent
        /\ parentAlive = TRUE
        /\ heartbeatTimer = (variant = "monitor")
        /\ shutdownCause = "none"
        /\ lastError = "none"
        /\ connOpen = FALSE
        /\ startScript = "probe"
        /\ SupervisorIdle
        /\ HooksIdle

ReadNext ==
    \/ \E limit \in { << >>, << 0 >>, << 1 >>, << 2 >> }, type \in { "", "observation" } :
          GetRecords([limit |-> limit, type |-> type])
    \/ GetStats

ReadSpec == ReadInit /\ [][ReadNext]_vars

\* ------------------------------------------------------------ properties

OneHour == 3600000

Finished(t) == status[t] \in {"saved", "failed"}
Waiting == {t \in Tasks : status[t] = "queued"}
Processing == {t \in Tasks : status[t] = "processing"}

\* C1: tasks are dequeued in exactly the order they were submitted (task n is
\* the n-th accepted submission), and a task is dequeued only when every task
\* dequeued before it has finished (saved or failed-logged).
C1_SubmissionOrder ==
    /\ \A i \in 1..Len(startOrder) : startOrder[i] = i
    /\ \A i \in 1..Len(startOrder) : i < Len(startOrder) => Finished(startOrder[i])

\* A second task was submitted, waited, and was dequeued after the first failed.
C1_Witness ==
    /\ Len(startOrder) = 2
    /\ status[1] = "failed"
    /\ status[2] = "processing"

\* C2: at most one task is in the processing state and at most one
\* analyzeSession call is awaited, whatever submits and setImmediate callbacks
\* arrive meanwhile.
C2_OneInFlight ==
    /\ Cardinality(Processing) <= 1
    /\ Cardinality(inflight) <= 1

\* A submit arrived during an analysis and its setImmediate callback has
\* already run processQueue: the task still waits.
C2_Witness ==
    /\ inflight # {}
    /\ Len(analysisQueue) >= 1
    /\ pendingImmediates = 0

\* C3: a task only moves none -> queued -> processing -> saved | failed, is
\* handed to analyzeSession at most once, and sits in the queue only while
\* queued.
C3_AtMostOnce ==
    [][ /\ \A t \in Tasks :
             /\ status'[t] # status[t] =>
                    << status[t], status'[t] >> \in
                        { << "none", "queued" >>, << "queued", "processing" >>,
                          << "processing", "saved" >>, << "processing", "failed" >> }
             /\ analyzeCalls'[t] <= 1
        /\ \A k \in 1..Len(analysisQueue') : status'[analysisQueue'[k].seq] = "queued"
      ]_vars

\* One task failed and was dropped after a single call, the next was saved.
C3_Witness ==
    /\ status[1] = "failed"
    /\ analyzeCalls[1] = 1
    /\ status[2] = "saved"

\* C4: a listening worker always answers GET /health, and every answer is a
\* 200 with status, queueSize = the number of waiting tasks (>= 0) and
\* uptime >= 0, also while a task is processing.
C4_Health ==
    /\ [](wstate = "listening" => ENABLED Health)
    /\ [][ (resp' # resp /\ resp'.op = "health") =>
               /\ resp'.code = 200
               /\ resp'.status = "ok"
               /\ resp'.n = Cardinality(Waiting)
               /\ resp'.n >= 0
               /\ resp'.uptime >= 0
         ]_vars

\* /health answered while one task is processing and another waits.
C4_Witness ==
    /\ resp.op = "health"
    /\ resp.code = 200
    /\ resp.n = 1
    /\ Cardinality(Waiting) = 1
    /\ inflight # {}
    /\ wstate = "listening"

WellFormed(b) == b.kind = "object" /\ b.sessionData.isArray

\* C5: POST /api/analyze appends one task and answers 202 with the position
\* when the body is well-formed; any other body is answered 400 and leaves
\* the queue unchanged.
C5_AsClaimed ==
    [][ \A b \in Bodies : Analyze(b) =>
            IF WellFormed(b)
              THEN /\ resp'.code = 202
                   /\ resp'.status = "queued"
                   /\ Len(analysisQueue') = Len(analysisQueue) + 1
                   /\ SubSeq(analysisQueue', 1, Len(analysisQueue)) = analysisQueue
                   /\ resp'.n = Len(analysisQueue')
              ELSE /\ resp'.code = 400
                   /\ analysisQueue' = analysisQueue
      ]_vars

ParentGone == ~parentAlive
HeartbeatStale == heartbeatFile # Absent /\ now - heartbeatFile > OneHour
HeartbeatFresh == heartbeatFile # Absent /\ now - heartbeatFile <= OneHour

C7_AsClaimed ==
    [][ (shutdownCause = "none" /\ shutdownCause' = "parent") => ~HeartbeatFresh ]_vars

\* C8: an uncaught exception or unhandled rejection never starts shutdown;
\* only a signal or the supervision check does.
C8_AsClaimed == shutdownCause \in {"none", "signal", "parent", "idle"}

\* C9: when the worker exits, no task is left cut off in the middle of its
\* analysis.
C9_AsClaimed == wstate = "exited" => Processing = {}

ScriptsAtRest == \A i \in Scripts : sc[i].pc \in {"idle", "done"}
RunningWorkers == {p \in Pids : proc[p] \in {"starting", "listening"}}

\* C10: once the start-script runs have returned, at most one worker instance
\* is running.
C10_AsClaimed == ScriptsAtRest => Cardinality(RunningWorkers) <= 1
\* Some start script ended by returning early.
ReturnedEarly(i) == sc[i].pc = "done" /\ sc[i].outcome = "already"

C12_AsClaimed ==
    [][ \A i \in Scripts :
          /\ (~ReturnedEarly(i) /\ ReturnedEarly(i)') => (sc[i].pc = "probing" /\ PortBound)
          /\ ProbeAnswer(i, FALSE) =>
                (pidFile' \in Pids /\ proc[pidFile'] = "none" /\ proc'[pidFile'] = "starting") ]_vars

\* C13 (as claimed): no run of the start script ends in an error exit, and no
\* run polls more than 10 times.
C13_AsClaimed ==
    \A i \in Scripts : sc[i].outcome # "exit1" /\ sc[i].polls < PollAttempts
C15_FallbackOnFailure ==
    /\ hook.outcome \in {"error", "timeout"} =>
          (hook.localRuns >= 1 /\ hook.localData = hook.sent)
    /\ hook.outcome = "202" => hook.localRuns = 0

\* The request timed out and a local analysis of the submitted data has ended.
C15_Witness ==
    /\ hook.outcome = "timeout"
    /\ hook.pc = "done"
    /\ hook.localData = hook.sent
    /\ Len(hook.sent) >= 2

IsPrefix(a, b) == Len(a) <= Len(b) /\ SubSeq(b, 1, Len(a)) = a

\* C16: every step of a hook or of an analysis leaves the Event Log as it was
\* or longer with its old content as a prefix, and the whole log reads back as
\* the records in the order of the append calls.
C16_AppendOnly ==
    /\ [][IsPrefix(memLog, memLog')]_vars
    /\ [](readMemoryFile(Len(memLog)) = appendCalls)

\* Hooks and an analysis have appended to a log that also holds older records.
C16_Witness ==
    /\ Len(memLog) >= 4
    /\ memLog[1].type = "session_event"
    /\ \E i \in 1..Len(memLog) : memLog[i].type = "session_summary"

\* The analysis of the session the stop hook picked up has ended in this step.
AnalysisOver == hook.pc \in {"local", "queued"} /\ hook'.pc = "done"

\* C17 (as claimed): the session-start hook leaves an empty buffer, and when
\* the analysis of a session has ended, with a saved result, a null result or
\* an error, the buffer of that session no longer exists.
C17_AsClaimed ==
    [][ /\ SessionStartHook("none") => (sessionFile'.exists /\ sessionFile'.items = << >>)
        /\ AnalysisOver => ~(sessionFile'.exists /\ sessionFile'.session = hook.session) ]_vars
\* C18 (as claimed): no call of analyzeSession ends in a throw or a rejection,
\* and a call that met an invalid base URL, a transport error, a status
\* outside 2xx or an unparseable answer has the result null.
C18_AsClaimed ==
    llm.pc = "done" =>
        /\ llm.result # "throw"
        /\ (llm.config # NoConfig /\ InvalidUrl(llm.config)) => llm.result = "null"
        /\ llm.response \in {"error", "status", "unparseable", "nojson"} => llm.result = "null"

\* C19 (as claimed): a request to the LLM endpoint that is still waiting can
\* always be ended by the program: by the endpoint's answer or by a timeout.
C19_AsClaimed == llm.pc = "awaiting" => ENABLED LlmSettles

DerivedEntities(log) == Flatten(log, "entities")

DerivedRelations(log) == Flatten(log, "relations")

RECURSIVE Concatenated(_)
Concatenated(entities) ==
    IF entities = << >> THEN << >>
    ELSE Head(entities).observations \o Concatenated(Tail(entities))

Named(entities, name) == SelectSeq(entities, LAMBDA e : e.name = name)

EntityLines == { i \in DOMAIN graphFile : graphFile[i].type = "entity" }
RelationLines == { i \in DOMAIN graphFile : graphFile[i].type = "relation" }

\* the records with this id that the builder reads
SavedAs(id) == { i \in DOMAIN memLog :
                    IF memLog[i].type = "user_message" THEN FALSE ELSE memLog[i].id = id }

\* every entity the record derives has a line of its name in GRAPH_FILE
Reflected(record) ==
    \A k \in DOMAIN Extract(record).entities :
        \E i \in EntityLines : graphFile[i].name = Extract(record).entities[k].name

\* C21: once the worker has saved an analysis (its session_summary and
\* observation records are in MEMORY_FILE), GRAPH_FILE eventually holds the
\* session entity of the summary and the entities of the observations.
C21_AsClaimed ==
    \A id \in Uuids :
        (SavedAs(id) # {}) ~> (\A i \in SavedAs(id) : Reflected(memLog[i]))

\* C22: a full rebuild of a MEMORY_FILE that an earlier full rebuild already
\* read writes the same GRAPH_FILE again, whatever GRAPH_FILE held in between.
C22_RebuildDependsOnLogOnly ==
    [][(kg.rebuilds > 0 /\ buildKnowledgeGraph) => graphFile' = kg.full]_vars

\* a second full rebuild of the same log has run, over a graph file that an
\* incremental run had changed since the first
C22_Witness ==
    /\ kg.rebuilds = 2
    /\ kg.last = "full"
    /\ kg.before # kg.full
    /\ graphFile = kg.full
    /\ EntityLines # {}

\* GRAPH_FILE is as a full rebuild of the present MEMORY_FILE left it
AfterRebuild == kg.last = "full" /\ ~kg.dirty

\* C23: after a full rebuild every derived entity name is on exactly one line,
\* which carries the observations of all entities of that name derived from
\* MEMORY_FILE, concatenated in log order without removing duplicates, and no
\* two relation lines have the same from, relationType and to.
C23_MergedByName ==
    AfterRebuild =>
        /\ \A i, j \in EntityLines : graphFile[i].name = graphFile[j].name => i = j
        /\ \A k \in DOMAIN DerivedEntities(memLog) :
              \E i \in EntityLines : graphFile[i].name = DerivedEntities(memLog)[k].name
        /\ \A i \in EntityLines :
              graphFile[i].observations =
                  Concatenated(Named(DerivedEntities(memLog), graphFile[i].name))
        /\ \A i, j \in RelationLines :
              RelationKey(graphFile[i]) = RelationKey(graphFile[j]) => i = j

\* a rebuilt graph in which one name was derived more than once, with an
\* observation string that occurs twice on its line, and one relation was
\* derived more than once
C23_Witness ==
    /\ AfterRebuild
    /\ \E i \in EntityLines :
          /\ Len(Named(DerivedEntities(memLog), graphFile[i].name)) >= 2
          /\ \E a, b \in DOMAIN graphFile[i].observations :
                a # b /\ graphFile[i].observations[a] = graphFile[i].observations[b]
    /\ Len(DerivedRelations(memLog)) > Cardinality(RelationLines)

\* C24: an incremental update that follows an incremental update, with nothing
\* appended to MEMORY_FILE in between, appends no line to GRAPH_FILE.
C24_AsClaimed ==
    [][(kg.last = "incremental" /\ ~kg.dirty /\ buildKnowledgeGraphIncremental)
          => graphFile' = graphFile]_vars


\* ---- the memory injection hook (QuerySpec)

\* the entities a finished search loaded, and the entry it scored for one
LoadedEntities ==
    { query.memory.loaded[i] : i \in { j \in DOMAIN query.memory.loaded :
                                          query.memory.loaded[j].type = "entity" } }
ScoredEntries == { query.memory.scored[i] : i \in DOMAIN query.memory.scored }
Matched == query.pc = "done" /\ query.searched /\ ~query.threw /\ query.memory.keywords # << >>

\* the keywords (by position) an entity's name contains, those that one of its
\* observations contains, and the pairs of an observation and a keyword in it
Contains(s, keyword) == includes(toLowerCase(s), toLowerCase(keyword))
NameHits(entity, keywords) == { k \in DOMAIN keywords : Contains(entity.name, keywords[k]) }
ObservationHits(entity, keywords) ==
    { k \in DOMAIN keywords :
        \E o \in DOMAIN entity.observations : Contains(entity.observations[o], keywords[k]) }
ObservationPairs(entity, keywords) ==
    { p \in (DOMAIN entity.observations) \X (DOMAIN keywords) :
        Contains(entity.observations[p[1]], keywords[p[2]]) }
Bonus(entity, today) ==
    IF entity.timestamp = << >> THEN 0
    ELSE IF daysSince(entity.timestamp, today) < 7 THEN 3
    ELSE IF daysSince(entity.timestamp, today) < 30 THEN 1
    ELSE 0
\* the score the search gave an entity: that of its entry, 0 if it has none
ScoreGiven(entity) ==
    IF \E s \in ScoredEntries : s.entity = entity
    THEN (CHOOSE s \in ScoredEntries : s.entity = entity).score
    ELSE 0

\* C25 as claimed: the score of every entity is 10 x the number of keywords its
\* name contains + 2 x the number of keywords that one of its observations
\* contains + the recency bonus (3 under 7 days, else 1 under 30 days, else 0).
C25_AsClaimed ==
    Matched =>
        \A entity \in LoadedEntities :
            ScoreGiven(entity) =
                10 * Cardinality(NameHits(entity, query.memory.keywords))
                + 2 * Cardinality(ObservationHits(entity, query.memory.keywords))
                + Bonus(entity, query.today)

\* C25 amended: the score of every entity is 10 x the number of keywords its
\* name contains + 2 x the number of pairs of an observation string and a
\* keyword such that the observation contains the keyword + the recency bonus
\* (3 under 7 days, else 1 under 30 days, else 0).
C25_ScorePerObservation ==
    Matched =>
        \A entity \in LoadedEntities :
            ScoreGiven(entity) =
                10 * Cardinality(NameHits(entity, query.memory.keywords))
                + 2 * Cardinality(ObservationPairs(entity, query.memory.keywords))
                + Bonus(entity, query.today)

\* a search scored an entity of which two observations contain the same
\* keyword, and entities of each recency tier
C25_Witness ==
    /\ Matched
    /\ \E entity \in LoadedEntities :
          /\ Cardinality(ObservationPairs(entity, query.memory.keywords))
               > Cardinality(ObservationHits(entity, query.memory.keywords))
          /\ NameHits(entity, query.memory.keywords) # {}
          /\ Bonus(entity, query.today) = 3
          /\ ScoreGiven(entity) = 17
    /\ \E entity \in LoadedEntities : Bonus(entity, query.today) = 1 /\ ScoreGiven(entity) > 1
    /\ \E entity \in LoadedEntities : Bonus(entity, query.today) = 0 /\ ScoreGiven(entity) > 0


\* the entities a finished search returned
Returned == query.memory.entities
\* two entities that differ in their names only
OtherwiseIdentical(a, b) == a.name # b.name /\ [a EXCEPT !.name = b.name] = b

\* C26: of two entities that are identical except that only one has a queried
\* keyword in its name, the one with the name match scores at least as high,
\* and wherever the other is returned the one with the match is returned
\* before it.
C26_NameMatchNeverBelow ==
    Matched =>
        \A a, b \in LoadedEntities :
            ( /\ OtherwiseIdentical(a, b)
              /\ NameHits(a, query.memory.keywords) # {}
              /\ NameHits(b, query.memory.keywords) = {} )
            => /\ ScoreGiven(a) >= ScoreGiven(b)
               /\ \A j \in DOMAIN Returned :
                     Returned[j] = b => \E i \in 1..(j - 1) : Returned[i] = a

\* a search returned both of two such entities, the one without the name
\* match standing first in the graph file
C26_Witness ==
    /\ Matched
    /\ \E a, b \in LoadedEntities :
          /\ OtherwiseIdentical(a, b)
          /\ NameHits(a, query.memory.keywords) # {}
          /\ NameHits(b, query.memory.keywords) = {}
          /\ graphFile[1] = b
          /\ \E i, j \in DOMAIN Returned : i < j /\ Returned[i] = a /\ Returned[j] = b


\* C27 as claimed: the result holds at most K entities (K the configured
\* max_entities, 5 when the file sets none), each with a score of at least the
\* configured threshold, in non-increasing score order, and no omitted entity
\* scores strictly higher than a returned one; for every configured threshold
\* and K, 0 included.
C27_AsClaimed ==
    (query.pc = "done" /\ query.searched /\ ~query.threw) =>
        LET config == loadConfig(query.file)
        IN  /\ Len(Returned) <= config.max_entities
            /\ \A i \in DOMAIN Returned : ScoreGiven(Returned[i]) >= config.min_score_threshold
            /\ \A i, j \in DOMAIN Returned :
                  i < j => ScoreGiven(Returned[i]) >= ScoreGiven(Returned[j])
            /\ \A entity \in LoadedEntities :
                  (\A i \in DOMAIN Returned : Returned[i] # entity)
                  => \A i \in DOMAIN Returned : ScoreGiven(entity) <= ScoreGiven(Returned[i])


\* the text the hook read as the prompt: data.prompt || data.content
PromptRead == IF query.stdin.prompt # << >> THEN query.stdin.prompt ELSE query.stdin.content
\* the search ran to its end and returned no entity
NothingFound == query.pc = "done" /\ query.searched /\ ~query.threw /\ Returned = << >>

\* C28: when the search returns no entity (none reaches the threshold, no
\* keyword is extracted, or the graph file is missing), the formatted memory
\* context is the empty string and the hook writes the prompt text it read,
\* with nothing in front of it and nothing changed.
C28_NothingInjected ==
    NothingFound =>
        /\ formatMemoryContext(query.memory, loadConfig(query.file)) = << >>
        /\ query.stdout.prompt = PromptRead
        /\ query.stdout.content = PromptRead

\* a search matched entities, none of them reached the threshold, and the
\* prompt went out as it came in
C28_Witness ==
    /\ NothingFound
    /\ query.memory.scored # << >>
    /\ \A i \in DOMAIN query.memory.scored :
          query.memory.scored[i].score < loadConfig(query.file).min_score_threshold
    /\ query.stdout.prompt = query.stdin.prompt
    /\ query.stdin.prompt # << >>


C29_UnparseableReached == query.pc = "done" /\ query.threw /\ ~query.stdin.parses
\* ... and a graph file that cannot be read
C29_UnreadableReached ==
    query.pc = "done" /\ query.threw /\ query.fault = "graph" /\ graphFile # << >>


\* a line of the graph file that carries the tag of another project
Foreign(item) == item.project # << >> /\ item.project # query.project

\* C30: with project isolation on and other projects not included, no entity
\* and no relation that carries the tag of another project is in the result
\* of a search; with isolation not set, every line of the graph file is a
\* candidate.
C30_ProjectIsolation ==
    (query.pc = "done" /\ query.searched /\ ~query.threw) =>
        LET config == loadConfig(query.file)
        IN  /\ (config.project_isolation /\ ~config.include_other_projects)
               => /\ \A i \in DOMAIN Returned : ~Foreign(Returned[i])
                  /\ \A i \in DOMAIN query.memory.relations : ~Foreign(query.memory.relations[i])
            /\ ~config.project_isolation => query.memory.loaded = graphFile

\* an isolated search returned an entity while the graph file held an entity
\* of another project that matches the prompt and a relation of another
\* project that touches the returned entity
C30_Witness ==
    /\ query.pc = "done" /\ query.searched /\ ~query.threw
    /\ loadConfig(query.file).project_isolation
    /\ ~loadConfig(query.file).include_other_projects
    /\ Returned # << >>
    /\ \E i \in DOMAIN graphFile :
          /\ graphFile[i].type = "entity"
          /\ Foreign(graphFile[i])
          /\ NameHits(graphFile[i], query.memory.keywords) # {}
    /\ \E i \in DOMAIN graphFile :
          /\ graphFile[i].type = "relation"
          /\ Foreign(graphFile[i])
          /\ \E j \in DOMAIN Returned : Returned[j].name \in { graphFile[i].from, graphFile[i].to }


\* ---- reading the Event Log (ReadSpec)

\* the records of the log: its lines that parse, in file order
RecordsOf(log) ==
    LET good == SelectSeq(log, LAMBDA line : line.parses)
    IN  [i \in DOMAIN good |-> [type |-> good[i].type, event |-> good[i].event]]
\* the last n elements of a sequence
LastOf(s, n) == IF n >= Len(s) THEN s ELSE SubSeq(s, Len(s) - n + 1, Len(s))
\* the limit a request for records asked for
LimitOf(url) == IF url.limit = << >> THEN DefaultLimit ELSE url.limit[1]

\* C31 as claimed: GET /api/records?limit=N&type=T answers with the last N
\* records of the log in file order, lines that do not parse skipped,
\* restricted to type T when one is given, with total the number of records
\* returned, and never with more than N records.
C31_AsClaimed ==
    resp.op = "records" =>
        LET lastN == LastOf(RecordsOf(memLog), LimitOf(resp.url))
        IN  /\ resp.records = IF resp.url.type = "" THEN lastN
                              ELSE SelectSeq(lastN, LAMBDA r : r.type = resp.url.type)
            /\ resp.total = Len(resp.records)
            /\ Len(resp.records) <= LimitOf(resp.url)

\* the part of C31 that is only about the number of records returned
C31_NeverMoreThanLimit ==
    resp.op = "records" => Len(resp.records) <= LimitOf(resp.url)


\* the sum of the counts of a by_type table
SumOf(by_type) ==
    LET RECURSIVE Sum(_)
        Sum(types) == IF types = {} THEN 0
                      ELSE LET t == CHOOSE t \in types : TRUE
                           IN  by_type[t] + Sum(types \ {t})
    IN  Sum(DOMAIN by_type)

\* C32 as claimed: the statistics are a scan of the whole Event Log: the total
\* is the number of records in the log and the counts by type add up to the
\* total, for a log of any length and with corrupt lines in it.
C32_AsClaimed ==
    resp.op = "stats" =>
        /\ resp.stats.total = Len(RecordsOf(memLog))
        /\ SumOf(resp.stats.by_type) = resp.stats.total

\* C32, the copies worker.js and part_006 alone
C32_AsClaimedOfWindow == variant # "ui" => C32_AsClaimed
\* C32, the copy worker/worker.js alone
C32_AsClaimedOfFullScan == variant = "ui" => C32_AsClaimed


\* ---- failed writes

\* C33 as claimed, the hooks: a write to the Event Log or to the session
\* buffer that fails is caught and logged by every hook; no hook script is
\* left by an uncaught exception.
C33_AsClaimed == hook.uncaught = "none"


\* ---- the heartbeat file

\* a hook script runs in this step
HookRuns ==
    \/ \E ioFail \in {"none", "log", "buffer"} :
          SessionStartHook(ioFail) \/ UserPromptHook(ioFail) \/ PostToolHook(ioFail)
    \/ \E hasResponse \in BOOLEAN : StopHook(hasResponse)

\* C34 as claimed: every run of a hook (session start, user prompt, post-tool,
\* stop) leaves the current time in the heartbeat file.
C34_AsClaimed == [][HookRuns => heartbeatFile' = now']_vars

\* C34, the stop hook alone
C34_AsClaimedOfStop == [][(\E hasResponse \in BOOLEAN : StopHook(hasResponse)) => heartbeatFile' = now']_vars


\* ---- what the worker saves

\* the worker's processQueue ends the task the stop hook submitted in this step
WorkerSettled == hook.pc = "queued" /\ hook'.pc = "done"
\* the records appended in this step
Appended == SubSeq(memLog', Len(memLog) + 1, Len(memLog'))
\* one session_summary for the submitted events, followed by one observation
\* record per observation of the analysis, in the order of the analysis
SummaryThenObservations(events, k) ==
    /\ Len(Appended) = 1 + k
    /\ Appended[1].type = "session_summary"
    /\ Appended[1].message_count = Len(events)
    /\ \A i \in 1..k : Appended[1 + i].type = "observation" /\ Appended[1 + i].index = i

C36_ConsumerNeverStalls ==
    Alive =>
        /\ (Len(analysisQueue) > 0 /\ inflight = {}) => pendingImmediates > 0
        /\ isProcessing => inflight # {}
        /\ (inflight # {}) => isProcessing


\* C36: a non-empty queue with no task in flight has a processQueue run
\* pending and isProcessing is true exactly while a task is in flight, so
\* every accepted task is dequeued in the end unless the worker shuts down.
C36_EveryTaskDequeued ==
    /\ [](C36_ConsumerNeverStalls)
    /\ \A t \in Tasks :
          (status[t] = "queued") ~> (status[t] # "queued" \/ wstate \in {"closing", "exited"})


\* a second task waited in the queue while the first was analysed, was
\* dequeued after the first had thrown, and the consumer is idle again
C36_Witness ==
    /\ Alive
    /\ wstate = "listening"
    /\ Len(startOrder) = 2
    /\ status[1] = "failed"
    /\ status[2] = "saved"
    /\ analysisQueue = << >>
    /\ inflight = {}
    /\ ~isProcessing
    /\ pendingImmediates = 0


\* The analyses and the session summaries one stop-hook invocation has led to.
SummariesWritten ==
    Cardinality({i \in 1..Len(appendCalls) : appendCalls[i].type = "session_summary"})

\* C37: one stop-hook invocation leads to at most one analysis and at most one
\* session_summary: the local fallback runs at most once, also after a timeout
\* whose request teardown raises an error event, and never in addition to a
\* worker that enqueued the submission.
C37_AsClaimed ==
    /\ hook.localRuns <= 1
    /\ SummariesWritten <= 1
    /\ (hook.outcome = "202") => hook.localRuns = 0



\* C38: saving the result of a task deletes only the buffer of the session the
\* task analysed: a buffer that a newer session has re-created while the task
\* was queued or processing is never removed by finishing the older task.
C38_AsClaimed ==
    [][(sessionFile.exists /\ ~sessionFile'.exists) => sessionFile.session = hook.session]_vars


\* The workers that serve the port, and the processes still running.
ServingWorkers == {p \in Pids : proc[p] = "listening"}
StopFinishes == stop.pc # "done" /\ stop'.pc = "done"

\* C39: whenever a worker is serving, the PID file exists and names it, and
\* when stop() has finished no worker process is left running.
C39_AsClaimed ==
    [][/\ \A p \in ServingWorkers' : pidFile' = p
       /\ StopFinishes => \A p \in Pids : ~ProcessExists(p)']_vars


\* C40: once shutdown has started the worker process eventually exits, at the
\* latest when the 5 s force timer fires, also when a client connection stays
\* open or an analysis in flight never returns.
C40_ShutdownExits == (wstate = "closing") ~> (wstate = "exited")

\* the worker has exited after a shutdown although the analysis of a task
\* never returned
C40_Witness ==
    /\ wstate = "exited"
    /\ shutdownCause # "none"
    /\ \E t \in Tasks : status[t] = "processing"

====
